---- MODULE Spec2Model ----
(***************************************************************************)
(* A model of the symbolic reasoning engine (src/unnamed/part_004, the     *)
(* ReasoningEngine class) and of the confidence assessment of the          *)
(* integration layer (src/src/integration/layer.js).                       *)
(*                                                                         *)
(* Conventions.                                                            *)
(*  - A JavaScript string is a sequence of tokens.  A token is a TLA+      *)
(*    string standing for a run of characters.  "?" (the variable mark),   *)
(*    the negation sign, " " (white space) and the letters that follow a   *)
(*    "?" are tokens of their own, and no other token contains "?",        *)
(*    "effect" or a negation word unless the tables below say so: every    *)
(*    substring test the code performs (startsWith, replace, includes,     *)
(*    the split on white space) then falls on token boundaries.            *)
(*  - A JavaScript number is an exact rational <<n, d>> in lowest terms    *)
(*    with d > 0.  The values the model computes are short decimals whose  *)
(*    products the claims compare with decimal literals; binary rounding   *)
(*    of doubles is not modelled.  Infinity and NaN never arise on the     *)
(*    paths modelled (see calculateConfidence).                            *)
(*  - undefined is the empty tuple (Undefined); it is only stored where a  *)
(*    number (never a string) is expected.                                 *)
(*  - A string field that is absent (undefined) is Absent, the sequence of  *)
(*    the empty token alone, which no string is.  Only rules registered    *)
(*    for the integration layer lack a conclusion.                         *)
(*  - A Set or Map of the code is a sequence without repetition, in        *)
(*    insertion order, which is the order JavaScript iterates it in; a Map *)
(*    is the sequence of its entries.                                      *)
(***************************************************************************)
EXTENDS Integers, Sequences, FiniteSets, TLC

VARIABLES
    rules,              \* this.rules: Map name -> rule, in insertion order
    facts,              \* this.facts: Set of propositions, in insertion order
    uncertainties,      \* this.uncertainties: Map proposition -> confidence
    reasoning_history,  \* this.reasoning_history
    returned,           \* what the most recent engine call returned or threw
    searchLog,          \* the calls of backwardChain's search made by that call
    calls,              \* how many times reason() has been called
    failures,           \* how many of these calls threw
    memories,           \* the rows of the memory store (the collaborator)
    assessment,         \* what the most recent assessConfidence call returned
    run,                \* the locals of a forwardChain call that is followed
                        \* turn by turn of its while loop
    layer               \* the most recent call of reflect or assessConfidence:
                        \* what it returned or threw and the calls it made on
                        \* the memory store and the engine, in order

vars == <<rules, facts, uncertainties, reasoning_history, returned, searchLog,
          calls, failures, memories, assessment, run, layer>>

-----------------------------------------------------------------------------
(* Numbers *)

Undefined == <<>>

Absent == <<"">>

Abs(n) == IF n < 0 THEN -n ELSE n

RECURSIVE GCD(_, _)
GCD(a, b) == IF b = 0 THEN a ELSE GCD(b, a % b)

Rat(n, d) == LET g == GCD(Abs(n), d) IN <<n \div g, d \div g>>

Zero == Rat(0, 1)
One == Rat(1, 1)
Dec(hundredths) == Rat(hundredths, 100)

Mul(x, y) == Rat(x[1] * y[1], x[2] * y[2])
Add(x, y) == Rat(x[1] * y[2] + y[1] * x[2], x[2] * y[2])
Sub(x, y) == Rat(x[1] * y[2] - y[1] * x[2], x[2] * y[2])
Less(x, y) == x[1] * y[2] < y[1] * x[2]
Leq(x, y) == x[1] * y[2] <= y[1] * x[2]
MinR(x, y) == IF Less(y, x) THEN y ELSE x
MaxR(x, y) == IF Less(x, y) THEN y ELSE x
InUnit(x) == Leq(Zero, x) /\ Leq(x, One)

\* x || d of JavaScript on numbers: undefined and 0 are falsy.
OrElse(x, d) == IF x = Undefined \/ x = Zero THEN d ELSE x

RECURSIVE MinOf(_)
MinOf(xs) == IF Len(xs) = 1 THEN xs[1] ELSE MinR(xs[1], MinOf(Tail(xs)))

\* Number.prototype.toFixed(2): the magnitude rounded to hundredths, half up.
toFixed2(x) ==
    LET h == (2 * Abs(x[1]) * 100 + x[2]) \div (2 * x[2])
    IN  (IF x[1] < 0 THEN <<"-">> ELSE <<>>)
        \o <<ToString(h \div 100), ".", ToString((h % 100) \div 10), ToString(h % 10)>>

-----------------------------------------------------------------------------
(* Strings, Sets and Maps *)

Has(seq, x) == \E i \in DOMAIN seq : seq[i] = x
SetAdd(seq, x) == IF Has(seq, x) THEN seq ELSE Append(seq, x)

\* A Map is the sequence of its entries <<key, value>>.
MapHas(m, k) == \E i \in DOMAIN m : m[i][1] = k
MapGet(m, k) ==
    IF MapHas(m, k) THEN m[CHOOSE i \in DOMAIN m : m[i][1] = k][2] ELSE Undefined
MapSet(m, k, v) ==
    IF MapHas(m, k)
    THEN [m EXCEPT ![CHOOSE i \in DOMAIN m : m[i][1] = k] = <<k, v>>]
    ELSE Append(m, <<k, v>>)
MapValues(m) == {m[i][2] : i \in DOMAIN m}
EmptyMap == <<>>

startsWith(s, t) == Len(s) >= Len(t) /\ SubSeq(s, 1, Len(t)) = t

\* The first index at which t occurs in s, 0 when it does not.
indexOf(s, t) ==
    LET hits == {i \in 1..(Len(s) - Len(t) + 1) : SubSeq(s, i, i + Len(t) - 1) = t}
    IN  IF hits = {} THEN 0 ELSE CHOOSE i \in hits : \A j \in hits : i <= j

includes(s, t) == indexOf(s, t) # 0

\* String.prototype.replace with a string pattern: the first occurrence only.
replace(s, t, v) ==
    LET i == indexOf(s, t)
    IN  IF i = 0 THEN s
        ELSE SubSeq(s, 1, i - 1) \o v \o SubSeq(s, i + Len(t), Len(s))

RECURSIVE join(_, _)
join(texts, sep) ==
    IF texts = <<>> THEN <<>>
    ELSE IF Len(texts) = 1 THEN texts[1]
    ELSE texts[1] \o sep \o join(Tail(texts), sep)

-----------------------------------------------------------------------------
(* The knowledge base *)

RuleIndex(rs, name) ==
    IF \E i \in DOMAIN rs : rs[i].name = name
    THEN CHOOSE i \in DOMAIN rs : rs[i].name = name
    ELSE 0

\* addRule(name, rule): Map.set keeps the position of a key already present.
addRule(rs, name, rule) ==
    LET entry == [name |-> name, pattern |-> rule.pattern,
                  conclusion |-> rule.conclusion, confidence |-> rule.confidence,
                  usage_count |-> 0, success_rate |-> One]
        i == RuleIndex(rs, name)
    IN  IF i = 0 THEN Append(rs, entry) ELSE [rs EXCEPT ![i] = entry]

Var(x) == <<"?", x>>
Implies(p, q) == p \o <<" ", "→", " ">> \o q
Not(p) == <<"¬">> \o p

modus_ponens ==
    [pattern |-> <<Implies(Var("P"), Var("Q")), Var("P")>>,
     conclusion |-> Var("Q"), confidence |-> Dec(95)]
modus_tollens ==
    [pattern |-> <<Implies(Var("P"), Var("Q")), Not(Var("Q"))>>,
     conclusion |-> Not(Var("P")), confidence |-> Dec(95)]
hypothetical_syllogism ==
    [pattern |-> <<Implies(Var("P"), Var("Q")), Implies(Var("Q"), Var("R"))>>,
     conclusion |-> Implies(Var("P"), Var("R")), confidence |-> Dec(90)]
\* The rule carries a confidence_calculation function that no code calls, and
\* no confidence.
uncertainty_propagation ==
    [pattern |-> <<Var("P"),
                   <<"confidence(">> \o Var("P") \o <<")", " ", "=", " ">> \o Var("C1"),
                   Implies(Var("P"), Var("Q")),
                   <<"confidence(">> \o Implies(Var("P"), Var("Q"))
                       \o <<")", " ", "=", " ">> \o Var("C2")>>,
     conclusion |-> Var("Q"), confidence |-> Undefined]
causal_inference ==
    [pattern |-> <<<<"cause(">> \o Var("X") \o <<",", " ">> \o Var("Y") \o <<")">>,
                   <<"observed(">> \o Var("X") \o <<")">>>>,
     conclusion |-> <<"likely(">> \o Var("Y") \o <<")">>, confidence |-> Dec(70)]

loadBasicRules(rs) ==
    addRule(addRule(addRule(addRule(addRule(rs,
        "modus_ponens", modus_ponens),
        "modus_tollens", modus_tollens),
        "hypothetical_syllogism", hypothetical_syllogism),
        "uncertainty_propagation", uncertainty_propagation),
        "causal_inference", causal_inference)

\* addFact that starts the fact set afresh.
addFact_single(kb, fact, confidence) ==
    [facts |-> <<fact>>,
     uncertainties |-> MapSet(kb.uncertainties, fact, confidence)]

\* addFact on a list instead of a Set.
addFact_append(kb, fact, confidence) ==
    [facts |-> Append(kb.facts, fact),
     uncertainties |-> MapSet(kb.uncertainties, fact, confidence)]

\* addFact(fact, confidence): the engine state is [facts, uncertainties].
addFact(kb, fact, confidence) ==
    [facts |-> SetAdd(kb.facts, fact),
     uncertainties |-> MapSet(kb.uncertainties, fact, confidence)]

RECURSIVE addPremises(_, _)
addPremises(kb, premises) ==
    IF premises = <<>> THEN kb
    ELSE addPremises(addFact(kb, Head(premises), One), Tail(premises))

-----------------------------------------------------------------------------
(* The matcher *)

\* unify(pattern, fact): null is [ok |-> FALSE]; the bindings object is the
\* sequence of its entries <<variable, value>>.
\* unify without the variable case of lines 286-290.
unify_literal(pattern, fact) ==
    IF pattern = fact THEN [ok |-> TRUE, bindings |-> <<>>]
    ELSE [ok |-> FALSE, bindings |-> <<>>]

unify(pattern, fact) ==
    IF pattern = fact THEN [ok |-> TRUE, bindings |-> <<>>]
    ELSE IF startsWith(pattern, <<"?">>)
         THEN [ok |-> TRUE, bindings |-> <<<<pattern, fact>>>>]
         ELSE [ok |-> FALSE, bindings |-> <<>>]

RECURSIVE instantiateConclusion(_, _)
instantiateConclusion(conclusion, bindings) ==
    IF bindings = <<>> THEN conclusion
    ELSE instantiateConclusion(replace(conclusion, bindings[1][1], bindings[1][2]),
                               Tail(bindings))

allPremisesSatisfied(pattern, fs, bindings) ==
    \A i \in DOMAIN pattern :
        \/ Has(fs, instantiateConclusion(pattern[i], bindings))
        \/ Has(fs, pattern[i])

\* matchRule(rule, facts).  pattern[0] of an empty pattern is undefined, and
\* unify(undefined, fact) throws a TypeError at undefined.startsWith; with no
\* fact to iterate over, unify is not called.
matchRuleThrows(rule, fs) == rule.pattern = <<>> /\ fs # <<>>

\* The test of the loop body (lines 273-274) for the i-th fact.
matchAt(rule, fs, i) ==
    /\ unify(rule.pattern[1], fs[i]).ok
    /\ allPremisesSatisfied(rule.pattern, fs, unify(rule.pattern[1], fs[i]).bindings)

\* The positions of the facts that pass the test, in iteration order.
matchPositions(rule, fs) ==
    SelectSeq([i \in DOMAIN fs |-> i], LAMBDA i : matchAt(rule, fs, i))

matchFrom(rule, fs, at) ==
    [k \in DOMAIN at |->
        [bindings |-> unify(rule.pattern[1], fs[at[k]]).bindings, fact |-> fs[at[k]]]]

matchRule(rule, fs) ==
    IF rule.pattern = <<>> THEN <<>> ELSE matchFrom(rule, fs, matchPositions(rule, fs))

matchesConclusion(pattern, goal) == pattern = goal \/ unify(pattern, goal).ok

entails(conclusion, goal) == conclusion = goal

\* calculateConfidence(rule, match, facts): facts is not read, the confidence
\* table is.  The pattern is never empty here: matchRule yields no match for
\* an empty pattern.
premiseConfidence(p, match, unc) ==
    OrElse(MapGet(unc, instantiateConclusion(p, match.bindings)),
           OrElse(MapGet(unc, p), Dec(50)))

\* calculateConfidence starting from 1.0 instead of rule.confidence.
calculateConfidence_unweighted(rule, match, unc) ==
    MaxR(Zero, MinR(One,
        Mul(MinOf([i \in DOMAIN rule.pattern |-> premiseConfidence(rule.pattern[i], match, unc)]),
            rule.success_rate)))

calculateConfidence(rule, match, unc) ==
    LET baseConfidence == OrElse(rule.confidence, One)
        premiseConfidences ==
            [i \in DOMAIN rule.pattern |-> premiseConfidence(rule.pattern[i], match, unc)]
        minPremiseConfidence == MinOf(premiseConfidences)
    IN  MaxR(Zero, MinR(One, Mul(Mul(baseConfidence, minPremiseConfidence),
                                 rule.success_rate)))

-----------------------------------------------------------------------------
(* Forward chaining *)

\* The operators below take every intermediate value as a parameter (one
\* operator per program point) rather than naming it in a LET.

maxIterations == 100

AppliedStep(ruleName, conclusion, confidence) ==
    <<"Applied ", ruleName, ": ">> \o conclusion
        \o <<" (confidence: ">> \o toFixed2(confidence) \o <<")">>

\* deriveFact with a working set that holds the newest fact only.
deriveFact_replacing(st, ri, conclusion, confidence) ==
    [st EXCEPT !.derivedFacts = <<conclusion>>,
               !.uncertainties = MapSet(@, conclusion, confidence),
               !.steps = Append(@, AppliedStep(st.rules[ri].name, conclusion, confidence)),
               !.appliedRules = Append(@, st.rules[ri].name),
               !.newFactsAdded = TRUE,
               !.rules[ri].usage_count = @ + 1,
               !.confidence = confidence]

\* Lines 127-138: the new fact joins derivedFacts, its confidence is stored,
\* the trace grows and the rule's usage_count is incremented.  st holds the
\* locals of forwardChain and the engine fields it writes.
deriveFact(st, ri, conclusion, confidence) ==
    [st EXCEPT !.derivedFacts = Append(@, conclusion),
               !.uncertainties = MapSet(@, conclusion, confidence),
               !.steps = Append(@, AppliedStep(st.rules[ri].name, conclusion, confidence)),
               !.appliedRules = Append(@, st.rules[ri].name),
               !.newFactsAdded = TRUE,
               !.rules[ri].usage_count = @ + 1,
               !.confidence = confidence]

\* Line 144: this.uncertainties.get(conclusion) || confidence.
foundGoal(st, conclusion) ==
    [st EXCEPT !.ret = "found",
               !.confidence = OrElse(MapGet(st.uncertainties, conclusion), @)]

\* Lines 140-148: the return inside the loop.
afterDerive(st, goal, conclusion) ==
    IF conclusion = goal \/ entails(conclusion, goal)
    THEN foundGoal(st, conclusion)
    ELSE st

\* The body of "for (const match of matches)" for match mi; nothing runs once
\* the function has returned (st.ret is then "found").
applyMatch(st, ri, matches, mi, goal, conclusion) ==
    IF st.ret # "none" \/ Has(st.derivedFacts, conclusion) THEN st
    ELSE afterDerive(deriveFact(st, ri, conclusion,
                         calculateConfidence(st.rules[ri], matches[mi], st.uncertainties)),
                     goal, conclusion)

\* "for (const match of matches)" over the matches lo..hi in order: the first
\* half of the range, then the second half on the state the first one left.
RECURSIVE applyMatches(_, _, _, _, _, _)
applyMatches(st, ri, matches, lo, hi, goal) ==
    IF st.ret # "none" \/ lo > hi THEN st
    ELSE IF lo = hi
         THEN applyMatch(st, ri, matches, lo, goal,
                  instantiateConclusion(st.rules[ri].conclusion, matches[lo].bindings))
         ELSE applyMatches(
                  applyMatches(st, ri, matches, lo, (lo + hi) \div 2, goal),
                  ri, matches, (lo + hi) \div 2 + 1, hi, goal)

matchesOf(st, ri, matches, goal) == applyMatches(st, ri, matches, 1, Len(matches), goal)

\* The body of "for (const [ruleName, rule] of this.rules)" from rule ri on.
RECURSIVE applyRules(_, _, _)

afterRule(st, ri, goal) ==
    IF st.ret # "none" THEN st ELSE applyRules(st, ri + 1, goal)

applyRules(st, ri, goal) ==
    IF ri > Len(st.rules) THEN st
    ELSE IF matchRuleThrows(st.rules[ri], st.derivedFacts)
         THEN [st EXCEPT !.ret = "threw"]
         ELSE afterRule(matchesOf(st, ri, matchRule(st.rules[ri], st.derivedFacts), goal),
                        ri, goal)

\* One pass of the while loop.
forwardPass(st, goal) ==
    applyRules([st EXCEPT !.newFactsAdded = FALSE, !.iterations = @ + 1], 1, goal)

\* The break of line 154 taken after every pass.
afterPass_eager(st) ==
    IF st.ret = "none" THEN [st EXCEPT !.ret = "break"] ELSE st

\* The loop test with <= for <.
loopCondition_inclusive(st) == st.iterations <= maxIterations

loopCondition(st) == st.iterations < maxIterations

\* Line 154: if (!newFactsAdded) break.
afterPass(st) ==
    IF st.ret = "none" /\ ~st.newFactsAdded THEN [st EXCEPT !.ret = "break"] ELSE st

\* One turn of "while (iterations < maxIterations)": the test, the body and
\* the break; a loop that was left stays left.
whileTurn(st, goal) ==
    IF st.ret # "none" THEN st
    ELSE IF ~loopCondition(st) THEN [st EXCEPT !.ret = "exit"]
    ELSE afterPass(forwardPass(st, goal))

\* n turns in a row, as the first half of them followed by the second half.
RECURSIVE whileTurns(_, _, _)
whileTurns(st, n, goal) ==
    IF st.ret # "none" THEN st
    ELSE IF n = 1 THEN whileTurn(st, goal)
    ELSE whileTurns(whileTurns(st, n \div 2, goal), n - n \div 2, goal)

\* The while loop: turns are taken, n and then twice as many at a time, until
\* the loop is left.
RECURSIVE forwardLoop(_, _, _)
forwardLoop(st, n, goal) ==
    IF st.ret # "none" THEN st ELSE forwardLoop(whileTurns(st, n, goal), 2 * n, goal)

TypeErrorText == <<"TypeError: Cannot read properties of undefined (reading 'startsWith')">>

\* The two return statements of forwardChain (lines 141-148 and 157-164), or
\* the exception that leaves it.
forwardReturn(st, goal) ==
    [threw |-> st.ret = "threw",
     error |-> IF st.ret = "threw" THEN TypeErrorText ELSE <<>>,
     value |-> IF st.ret = "threw" THEN <<>>
               ELSE [conclusion |-> goal,
                     found |-> IF st.ret = "found" THEN TRUE
                               ELSE Has(st.derivedFacts, goal),
                     confidence |-> IF st.ret = "found" THEN st.confidence
                                    ELSE OrElse(MapGet(st.uncertainties, goal), Zero),
                     steps |-> st.steps, appliedRules |-> st.appliedRules,
                     iterations |-> st.iterations],
     rules |-> st.rules, uncertainties |-> st.uncertainties, log |-> <<>>]

\* Lines 110-114: the locals of forwardChain before the loop.
forwardStart(eng) ==
    [derivedFacts |-> eng.facts, uncertainties |-> eng.uncertainties,
     rules |-> eng.rules, steps |-> <<>>, appliedRules |-> <<>>,
     iterations |-> 0, newFactsAdded |-> FALSE, ret |-> "none",
     confidence |-> Zero]

\* forwardChain(goal) on the engine state eng: [threw, error, value] and the
\* fields of the engine it wrote.
forwardChain(eng, goal) ==
    forwardReturn(forwardLoop(forwardStart(eng), 1, goal), goal)

-----------------------------------------------------------------------------
(* Backward chaining *)

maxDepth == 10

\* search(currentGoal, depth) of backwardChain.  st = [visited, steps, log]
\* are the closure's variables; log (not in the code) records each call of
\* search: [goal, depth, outcome |-> "expand"] when the call goes on to the
\* rules, and [goal, depth, outcome, found, confidence] with what it returned
\* when it returns before them (outcome "depth", "visited" or "fact").
RECURSIVE search(_, _, _, _), tryRules(_, _, _, _, _, _), satisfyPremises(_, _, _, _, _, _)

\* The depth test one level late.
depthExceeded_late(depth) == depth > maxDepth + 1

depthExceeded(depth) == depth > maxDepth

Expanded(st, currentGoal, depth) ==
    [st EXCEPT !.log = Append(@, [goal |-> currentGoal, depth |-> depth,
                                  outcome |-> "expand"]),
               !.visited = @ \cup {currentGoal}]

Failure(st) == [found |-> FALSE, confidence |-> Zero, st |-> st]

\* A return of search before the rules are tried.
EarlyReturn(st, currentGoal, depth, outcome, found, confidence) ==
    [found |-> found, confidence |-> confidence,
     st |-> [st EXCEPT !.log = Append(@, [goal |-> currentGoal, depth |-> depth,
                                          outcome |-> outcome, found |-> found,
                                          confidence |-> confidence])]]

factConfidence(eng, currentGoal) == OrElse(MapGet(eng.uncertainties, currentGoal), One)

\* The rules whose conclusion matches the goal (line 186), in Map order.
concluding(eng, currentGoal) ==
    SelectSeq([i \in DOMAIN eng.rules |-> i],
              LAMBDA i : matchesConclusion(eng.rules[i].conclusion, currentGoal))

\* search without the test of the visited set (line 173).
search_revisiting(eng, currentGoal, depth, st) ==
    IF depthExceeded(depth)
    THEN EarlyReturn(st, currentGoal, depth, "depth", FALSE, Zero)
    ELSE IF Has(eng.facts, currentGoal)
         THEN EarlyReturn([st EXCEPT !.visited = @ \cup {currentGoal},
                                     !.steps = Append(@, <<"Found fact: ">> \o currentGoal)],
                          currentGoal, depth, "fact", TRUE,
                          factConfidence(eng, currentGoal))
         ELSE tryRules(eng, currentGoal, depth, concluding(eng, currentGoal), 1,
                       Expanded(st, currentGoal, depth))

search(eng, currentGoal, depth, st) ==
    CASE depthExceeded(depth) ->
            EarlyReturn(st, currentGoal, depth, "depth", FALSE, Zero)
      [] ~depthExceeded(depth) /\ currentGoal \in st.visited ->
            EarlyReturn(st, currentGoal, depth, "visited", FALSE, Zero)
      [] OTHER ->
            IF Has(eng.facts, currentGoal)
            THEN EarlyReturn([st EXCEPT !.visited = @ \cup {currentGoal},
                                        !.steps = Append(@, <<"Found fact: ">> \o currentGoal)],
                             currentGoal, depth, "fact", TRUE,
                             factConfidence(eng, currentGoal))
            ELSE tryRules(eng, currentGoal, depth, concluding(eng, currentGoal), 1,
                          Expanded(st, currentGoal, depth))

ruleConfidence(minConfidence, rule) == Mul(minConfidence, OrElse(rule.confidence, One))

satisfied(rule, currentGoal, confidence, st) ==
    [found |-> TRUE, confidence |-> confidence,
     st |-> [st EXCEPT !.steps = Append(@,
                <<"Satisfied ", rule.name, ": ">> \o currentGoal
                \o <<" (confidence: ">> \o toFixed2(confidence) \o <<")">>)]]

afterPremises(eng, currentGoal, depth, rs, k, sub) ==
    IF sub.allPremisesSatisfied
    THEN satisfied(eng.rules[rs[k]], currentGoal,
                   ruleConfidence(sub.minConfidence, eng.rules[rs[k]]), sub.st)
    ELSE tryRules(eng, currentGoal, depth, rs, k + 1, sub.st)

\* "for (const [ruleName, rule] of this.rules)" over the k-th and later of the
\* rules rs that conclude the goal.
tryRules(eng, currentGoal, depth, rs, k, st) ==
    IF k > Len(rs) THEN Failure(st)
    ELSE afterPremises(eng, currentGoal, depth, rs, k,
             satisfyPremises(eng, eng.rules[rs[k]].pattern, 1, depth, One,
                 [st EXCEPT !.steps = Append(@,
                     <<"Trying rule ", eng.rules[rs[k]].name, " for ">> \o currentGoal)]))

afterSubgoal(eng, requiredPremises, pi, depth, minConfidence, subResult) ==
    IF ~subResult.found
    THEN [allPremisesSatisfied |-> FALSE, minConfidence |-> minConfidence,
          st |-> subResult.st]
    ELSE satisfyPremises(eng, requiredPremises, pi + 1, depth,
                         MinR(minConfidence, subResult.confidence), subResult.st)

satisfyPremises(eng, requiredPremises, pi, depth, minConfidence, st) ==
    IF pi > Len(requiredPremises)
    THEN [allPremisesSatisfied |-> TRUE, minConfidence |-> minConfidence, st |-> st]
    ELSE afterSubgoal(eng, requiredPremises, pi, depth, minConfidence,
                      search(eng, requiredPremises[pi], depth + 1, st))

backwardReturn(goal, result) ==
    [threw |-> FALSE, error |-> <<>>,
     value |-> [conclusion |-> goal, found |-> result.found,
                confidence |-> result.confidence, steps |-> result.st.steps,
                method |-> "backward_chaining"],
     log |-> result.st.log]

backwardChain(eng, goal) ==
    backwardReturn(goal, search(eng, goal, 0, [visited |-> {}, steps |-> <<>>, log |-> <<>>]))

-----------------------------------------------------------------------------
(* Abductive reasoning *)

RECURSIVE assessPlausibilityFrom(_, _, _)
assessPlausibilityFrom(fs, premises, i) ==
    IF i > Len(premises) THEN One
    ELSE Mul(IF Has(fs, premises[i]) THEN One
             ELSE IF Has(fs, Not(premises[i])) THEN Dec(10)
             ELSE Dec(50),
             assessPlausibilityFrom(fs, premises, i + 1))

\* assessPlausibility without the branch of line 348.
assessPlausibility_unsigned(fs, premises) ==
    Rat(1, 2 ^ Cardinality({i \in DOMAIN premises : ~Has(fs, premises[i])}))

assessPlausibility(fs, premises) == assessPlausibilityFrom(fs, premises, 1)

findCausalExplanations(observation) ==
    IF includes(observation, <<"effect">>)
    THEN <<[rule |-> "causal_inference",
            premises |-> <<replace(observation, <<"effect">>, <<"cause">>)>>,
            confidence |-> Dec(60), plausibility |-> Dec(70)]>>
    ELSE <<>>

RECURSIVE ruleExplanations(_, _, _)
ruleExplanations(eng, observation, ri) ==
    IF ri > Len(eng.rules) THEN <<>>
    ELSE LET rule == eng.rules[ri]
         IN  (IF matchesConclusion(rule.conclusion, observation)
              THEN <<[rule |-> rule.name, premises |-> rule.pattern,
                      confidence |-> OrElse(rule.confidence, One),
                      plausibility |-> assessPlausibility(eng.facts, rule.pattern)]>>
              ELSE <<>>)
             \o ruleExplanations(eng, observation, ri + 1)

Score(e) == Mul(e.confidence, e.plausibility)

\* The comparator with its operands exchanged.
compareExplanations_ascending(a, b) == Sub(Score(a), Score(b))

\* The comparator of explanations.sort: negative when a goes before b.
compareExplanations(a, b) == Sub(Score(b), Score(a))

\* Array.prototype.sort is stable: e goes after every element that does not
\* compare greater than it.
RECURSIVE insertSorted(_, _)
insertSorted(sorted, e) ==
    IF sorted = <<>> THEN <<e>>
    ELSE IF Less(Zero, compareExplanations(Head(sorted), e))
         THEN <<e>> \o sorted
         ELSE <<Head(sorted)>> \o insertSorted(Tail(sorted), e)

RECURSIVE sortExplanations(_)
sortExplanations(es) ==
    IF es = <<>> THEN <<>>
    ELSE insertSorted(sortExplanations(SubSeq(es, 1, Len(es) - 1)), es[Len(es)])

RECURSIVE possibleSteps(_)
possibleSteps(es) ==
    IF es = <<>> THEN <<>>
    ELSE <<<<"Possible explanation via ", es[1].rule, ": ">>
             \o join(es[1].premises, <<",", " ">>)>>
         \o possibleSteps(Tail(es))

abductiveReturn(observation, fromRules, explanations) ==
    [conclusion |-> IF explanations # <<>>
                    THEN <<"Best explanation: ">>
                             \o join(explanations[1].premises, <<" ", "&", " ">>)
                    ELSE <<"No explanation found">>,
     found |-> Len(explanations) > 0,
     confidence |-> IF explanations # <<>> THEN Score(explanations[1]) ELSE Zero,
     steps |-> <<<<"Finding explanations for: ">> \o observation>> \o possibleSteps(fromRules),
     explanations |-> explanations,
     method |-> "abductive_reasoning"]

rankExplanations(observation, fromRules) ==
    abductiveReturn(observation, fromRules,
                    sortExplanations(fromRules \o findCausalExplanations(observation)))

abductiveReason(eng, observation) ==
    rankExplanations(observation, ruleExplanations(eng, observation, 1))

\* matchesConclusion(undefined, observation) throws a TypeError at
\* undefined.startsWith (line 287); the loop of line 232 visits every rule.
matchesConclusionThrows(eng) ==
    \E i \in DOMAIN eng.rules : eng.rules[i].conclusion = Absent

\* abductiveReason(observation): what it returns, or the exception.
abductiveOutcome(eng, observation) ==
    IF matchesConclusionThrows(eng)
    THEN [threw |-> TRUE, error |-> TypeErrorText, value |-> <<>>, log |-> <<>>]
    ELSE [threw |-> FALSE, error |-> <<>>,
          value |-> abductiveReason(eng, observation), log |-> <<>>]

-----------------------------------------------------------------------------
(* reason, getReasoningStats, clear *)

\* The destructuring default: method = 'forward' when the request has none.
\* request.method is <<>> (absent) or <<m>>.
methodOf(request) == IF request.method = <<>> THEN "forward" ELSE request.method[1]

\* Line 80: premises.forEach(premise => this.addFact(premise)).
ingest(eng, kb) == [eng EXCEPT !.facts = kb.facts, !.uncertainties = kb.uncertainties]

\* Lines 97-106: the session is stored and the result returned; a call that
\* threw stores nothing.  out = [threw, error, value, log] and, for forward
\* chaining, the rules and confidence table as the chainer left them.
session(request, method, result, eng) ==
    [premises |-> request.premises, goal |-> request.goal, method |-> method,
     result |-> result, timestamp |-> Len(eng.reasoning_history)]

\* reason() without the push of lines 98-104.
finishReason_unrecorded(eng, request, method, out) ==
    [eng |-> eng, threw |-> out.threw, error |-> out.error, value |-> out.value,
     log |-> out.log]

finishReason(eng, request, method, out) ==
    [eng |-> IF out.threw THEN eng
             ELSE [eng EXCEPT !.reasoning_history =
                       Append(@, session(request, method, out.value, eng))],
     threw |-> out.threw, error |-> out.error, value |-> out.value, log |-> out.log]

\* reason() that keeps the goal forward chaining derived as a fact.
afterForward_persisting(eng, request, method, out) ==
    finishReason([eng EXCEPT !.rules = out.rules, !.uncertainties = out.uncertainties,
                             !.facts = IF ~out.threw /\ out.value.found
                                       THEN SetAdd(@, request.goal) ELSE @],
                 request, method, out)

afterForward(eng, request, method, out) ==
    finishReason([eng EXCEPT !.rules = out.rules, !.uncertainties = out.uncertainties],
                 request, method, out)

\* The switch with a default that falls back to forward chaining.
dispatch_defaulting(eng, request, method) ==
    IF method = "backward"
    THEN finishReason(eng, request, method, backwardChain(eng, request.goal))
    ELSE IF method = "abductive"
    THEN finishReason(eng, request, method, abductiveOutcome(eng, request.goal))
    ELSE afterForward(eng, request, method, forwardChain(eng, request.goal))

\* The switch of lines 83-95.
dispatch(eng, request, method) ==
    IF method = "forward"
    THEN afterForward(eng, request, method, forwardChain(eng, request.goal))
    ELSE IF method = "backward"
    THEN finishReason(eng, request, method, backwardChain(eng, request.goal))
    ELSE IF method = "abductive"
    THEN finishReason(eng, request, method, abductiveOutcome(eng, request.goal))
    ELSE finishReason(eng, request, method,
                      [threw |-> TRUE, error |-> <<"Unknown reasoning method: ", method>>,
                       value |-> <<>>, log |-> <<>>])

\* reason(request) on eng = [rules, facts, uncertainties, reasoning_history]:
\* the engine after the call, what the call returned or threw, and the log of
\* backwardChain's search.
reason(eng, request) ==
    dispatch(ingest(eng, addPremises([facts |-> eng.facts,
                                      uncertainties |-> eng.uncertainties],
                                     request.premises)),
             request, methodOf(request))

getReasoningStats(eng) ==
    [total_rules |-> Len(eng.rules),
     total_facts |-> Len(eng.facts),
     reasoning_sessions |-> Len(eng.reasoning_history),
     rule_statistics |-> [i \in DOMAIN eng.rules |->
                             [name |-> eng.rules[i].name,
                              usage_count |-> eng.rules[i].usage_count,
                              success_rate |-> eng.rules[i].success_rate,
                              confidence |-> eng.rules[i].confidence]]]

Engine == [rules |-> rules, facts |-> facts, uncertainties |-> uncertainties,
           reasoning_history |-> reasoning_history]

NoRequest == [premises |-> <<>>, goal |-> <<>>, method |-> <<>>]

\* run.active is FALSE unless a forwardChain call is under way.
NoRun == [active |-> FALSE, request |-> NoRequest, st |-> <<>>]

\* returned.called is FALSE until reason() has been called.
NoReturn == [called |-> FALSE, request |-> NoRequest, threw |-> FALSE,
             error |-> <<>>, value |-> <<>>]

-----------------------------------------------------------------------------
(* The memory store (src/unnamed/part_005): store and search *)

\* A column that may be NULL is <<>> (NULL) or <<text>>.
Null == <<>>

\* String.prototype.toLowerCase, and the case folding of LIKE, on the tokens
\* of the inputs.
lowerToken(t) ==
    CASE t = "X" -> "x"
      [] t = "E" -> "e"
      [] t = "Confidence" -> "confidence"
      [] OTHER -> t

toLowerCase(s) == [i \in DOMAIN s |-> lowerToken(s[i])]

\* memoryData.field, or the default of the destructuring when it is absent.
fieldOr(memoryData, field, default) ==
    IF field \in DOMAIN memoryData THEN memoryData[field] ELSE default

\* store(memoryData): the row inserted.  The timestamp is the position of the
\* row in the order of insertion.
store(mem, memoryData) ==
    Append(mem,
        [id |-> Len(mem) + 1,
         content |-> memoryData.content,
         context |-> fieldOr(memoryData, "context", <<"general">>),
         type |-> fieldOr(memoryData, "type", "episodic"),
         emotional_weight |-> fieldOr(memoryData, "emotional_weight", Zero),
         confidence |-> fieldOr(memoryData, "confidence", One),
         timestamp |-> Len(mem) + 1,
         tags |-> fieldOr(memoryData, "tags", Null)])

\* column LIKE '%query%'; NULL LIKE anything is not true.
like(column, query) ==
    column # Null /\ includes(toLowerCase(column[1]), toLowerCase(query))

\* The WHERE clause of search.
selected(row, query, context) ==
    /\ \/ like(<<row.content>>, query)
       \/ like(<<row.context>>, query)
       \/ like(row.tags, query)
    /\ context # Null => row.context = context[1]

\* The CASE of the SELECT; its second arm repeats the pattern of the first.
relevance_score(row, query) ==
    IF like(<<row.content>>, query) THEN One
    ELSE IF like(<<row.context>>, query) THEN Dec(60)
    ELSE IF like(row.tags, query) THEN Dec(50)
    ELSE Dec(30)

\* ORDER BY relevance_score DESC, emotional_weight DESC, timestamp DESC.
ordersBefore(a, b, query) ==
    \/ Less(relevance_score(b, query), relevance_score(a, query))
    \/ /\ relevance_score(b, query) = relevance_score(a, query)
       /\ \/ Less(b.emotional_weight, a.emotional_weight)
          \/ /\ b.emotional_weight = a.emotional_weight
             /\ b.timestamp < a.timestamp

RECURSIVE insertOrdered(_, _, _)
insertOrdered(sorted, row, query) ==
    IF sorted = <<>> THEN <<row>>
    ELSE IF ordersBefore(row, Head(sorted), query) THEN <<row>> \o sorted
    ELSE <<Head(sorted)>> \o insertOrdered(Tail(sorted), row, query)

RECURSIVE orderRows(_, _)
orderRows(rows, query) ==
    IF rows = <<>> THEN <<>>
    ELSE insertOrdered(orderRows(Tail(rows), query), Head(rows), query)

\* LIMIT ?
limitRows(rows, limit) == SubSeq(rows, 1, IF Len(rows) < limit THEN Len(rows) ELSE limit)

\* results.map(row => ({...row, confidence: row.relevance_score * row.confidence}))
scaleRows(rows, query) ==
    [i \in DOMAIN rows |->
        [relevance_score |-> relevance_score(rows[i], query)]
            @@ [rows[i] EXCEPT !.confidence = Mul(relevance_score(rows[i], query), @)]]

\* search(query, context, limit)
memorySearch(mem, query, context, limit) ==
    scaleRows(
        limitRows(orderRows(SelectSeq(mem, LAMBDA row : selected(row, query, context)),
                            query),
                  limit),
        query)

-----------------------------------------------------------------------------
(* The integration layer (src/src/integration/layer.js): assessConfidence *)

\* s.trim()
RECURSIVE trim(_)
trim(s) ==
    IF s # <<>> /\ Head(s) = " " THEN trim(Tail(s))
    ELSE IF s # <<>> /\ s[Len(s)] = " " THEN trim(SubSeq(s, 1, Len(s) - 1))
    ELSE s

\* new Set(s.split(/\s+/)): the words of s, with the empty word when s is
\* empty or begins or ends with white space.
splitWords(s) ==
    {s[i] : i \in {j \in DOMAIN s : s[j] # " "}}
        \cup (IF s = <<>> \/ s[1] = " " \/ s[Len(s)] = " " THEN {""} ELSE {})

\* The magnitude and the sign of the number determineSupport returns.
overlapRatio(memoryContent, statement) ==
    Rat(Cardinality(splitWords(toLowerCase(memoryContent))
                        \cap splitWords(toLowerCase(statement))),
        Cardinality(splitWords(toLowerCase(statement))))

hasNegationPattern(memoryContent) ==
    \/ includes(memoryContent, <<"not">>)
    \/ includes(memoryContent, <<"never">>)
    \/ includes(memoryContent, <<"impossible">>)

determineSupport(memoryContent, statement) ==
    IF hasNegationPattern(memoryContent)
    THEN Sub(Zero, overlapRatio(memoryContent, statement))
    ELSE IF Less(Dec(30), overlapRatio(memoryContent, statement)) THEN One
    ELSE IF Less(Dec(10), overlapRatio(memoryContent, statement)) THEN Dec(50)
    ELSE Zero

negationWords == <<"not", "never", "impossible", "false", "incorrect">>

hasNegation(lower) == \E i \in DOMAIN negationWords : includes(lower, <<negationWords[i]>>)

\* lower.replace(/\b(not|never|impossible|false|incorrect)\b/g, '').trim()
cleanStatement(lower) ==
    trim(SelectSeq(lower, LAMBDA t : \A i \in DOMAIN negationWords : t # negationWords[i]))

calculateSimilarity(text1, text2) ==
    Rat(Cardinality(splitWords(text1) \cap splitWords(text2)),
        Cardinality(splitWords(text1) \cup splitWords(text2)))

detectContradiction(statement1, statement2) ==
    /\ hasNegation(toLowerCase(statement1)) # hasNegation(toLowerCase(statement2))
    /\ Less(Dec(70), calculateSimilarity(cleanStatement(toLowerCase(statement1)),
                                         cleanStatement(toLowerCase(statement2))))

\* reduce((sum, m) => sum + m.confidence, 0)
RECURSIVE sumConfidence(_)
sumConfidence(ms) ==
    IF ms = <<>> THEN Zero
    ELSE Add(sumConfidence(SubSeq(ms, 1, Len(ms) - 1)), ms[Len(ms)].confidence)

Div(x, n) == Rat(x[1], x[2] * n)

memorySupportOf(relevantMemories, supportingMemories, contradictingMemories) ==
    [confidence |->
        MaxR(Zero, MinR(One,
            Div(Sub(sumConfidence(supportingMemories),
                    sumConfidence(contradictingMemories)),
                IF Len(relevantMemories) < 1 THEN 1 ELSE Len(relevantMemories)))),
     matches |-> Len(relevantMemories),
     supporting |-> Len(supportingMemories),
     contradicting |-> Len(contradictingMemories)]

supportOf(relevantMemories, statement) ==
    memorySupportOf(relevantMemories,
        SelectSeq(relevantMemories,
                  LAMBDA m : Less(Zero, determineSupport(m.content, statement))),
        SelectSeq(relevantMemories,
                  LAMBDA m : Less(determineSupport(m.content, statement), Zero)))

assessMemorySupport(mem, statement) ==
    supportOf(memorySearch(mem, statement, Null, 10), statement)

contradictionsOf(relatedMemories, statement) ==
    SelectSeq(relatedMemories, LAMBDA m : detectContradiction(statement, m.content))

consistencyOf(contradictions) ==
    [score |-> MaxR(Zero, Sub(One, Mul(Rat(Len(contradictions), 1), Dec(20)))),
     contradictions |-> Len(contradictions),
     details |-> [i \in DOMAIN contradictions |->
                     [memory_id |-> contradictions[i].id,
                      content |-> contradictions[i].content,
                      confidence |-> contradictions[i].confidence]]]

checkConsistency(mem, statement) ==
    consistencyOf(contradictionsOf(memorySearch(mem, statement, Null, 15), statement))

\* assessSourceReliability without the case of no evidence.
assessSourceReliability_flat(evidence) == Dec(70)

assessSourceReliability(evidence) == IF Len(evidence) = 0 THEN Dec(50) ELSE Dec(70)

categorizeConfidence(score) ==
    IF Leq(Dec(90), score) THEN "very_high"
    ELSE IF Leq(Dec(70), score) THEN "high"
    ELSE IF Leq(Dec(50), score) THEN "moderate"
    ELSE IF Leq(Dec(30), score) THEN "low"
    ELSE "very_low"

\* Number.prototype.toFixed(1): the magnitude rounded to tenths, half up.
toFixed1(x) ==
    LET h == (2 * Abs(x[1]) * 10 + x[2]) \div (2 * x[2])
    IN  (IF x[1] < 0 THEN <<"-">> ELSE <<>>)
        \o <<ToString(h \div 10), ".", ToString(h % 10)>>

\* (x * 100).toFixed(1)
percent(x) == toFixed1(Mul(x, Rat(100, 1)))

forwardRequest(statement, evidence) ==
    [premises |-> evidence, goal |-> statement, method |-> <<"forward">>]

abductiveRequest(statement, evidence) ==
    [premises |-> evidence, goal |-> statement, method |-> <<"abductive">>]

\* made: the calls of reason() made, each with what it returned or threw.
Made(request, r) ==
    [request |-> request, threw |-> r.threw, error |-> r.error, value |-> r.value,
     log |-> r.log]

\* The catch block without the factor 0.8.
afterAbductive_full(made, second) ==
    [confidence |-> IF second.threw THEN Dec(30) ELSE second.value.confidence,
     method |-> IF second.threw THEN "reasoning_failed" ELSE "abductive_reasoning",
     eng |-> second.eng, made |-> made]

\* Lines 183-198: the catch block of the forward attempt.
afterAbductive(made, second) ==
    [confidence |-> IF second.threw THEN Dec(30)
                    ELSE Mul(second.value.confidence, Dec(80)),
     method |-> IF second.threw THEN "reasoning_failed" ELSE "abductive_reasoning",
     eng |-> second.eng, made |-> made]

abductiveAttempt(statement, evidence, made, first, second) ==
    afterAbductive(Append(made, Made(abductiveRequest(statement, evidence), second)),
                   second)

\* Lines 170-182: the forward attempt and its return.
forwardAttempt(statement, evidence, first) ==
    IF ~first.threw
    THEN [confidence |-> first.value.confidence, method |-> "forward_chaining",
          eng |-> first.eng,
          made |-> <<Made(forwardRequest(statement, evidence), first)>>]
    ELSE abductiveAttempt(statement, evidence,
                          <<Made(forwardRequest(statement, evidence), first)>>, first,
                          reason(first.eng, abductiveRequest(statement, evidence)))

\* assessReasoningSupport that goes to the engine also without evidence.
assessReasoningSupport_always(eng, statement, evidence) ==
    forwardAttempt(statement, evidence,
                   reason(eng, forwardRequest(statement, evidence)))

assessReasoningSupport(eng, statement, evidence) ==
    IF Len(evidence) = 0
    THEN [confidence |-> Dec(50), method |-> "no_evidence", eng |-> eng, made |-> <<>>]
    ELSE forwardAttempt(statement, evidence,
                        reason(eng, forwardRequest(statement, evidence)))


\* Lines 96-116: the four weighted scores.
breakdownOf(memorySupport, reasoningSupport, consistencyCheck, sourceReliability) ==
    [memory_support |-> Mul(memorySupport.confidence, Dec(30)),
     reasoning_support |-> Mul(reasoningSupport.confidence, Dec(40)),
     consistency |-> Mul(consistencyCheck.score, Dec(20)),
     source_reliability |-> Mul(sourceReliability, Dec(10))]

\* overallConfidence without the "+=" of line 113.
overallOf_partial(breakdown) ==
    Add(Add(Add(Zero, breakdown.memory_support), breakdown.reasoning_support),
        breakdown.consistency)

\* overallConfidence after the four "+=".
overallOf(breakdown) ==
    Add(Add(Add(Add(Zero, breakdown.memory_support), breakdown.reasoning_support),
            breakdown.consistency),
        breakdown.source_reliability)

factorsOf(memorySupport, reasoningSupport, consistencyCheck, sourceReliability) ==
    << <<"Memory support: ", ToString(memorySupport.matches), " relevant memories (">>
           \o percent(memorySupport.confidence) \o <<"%)">>,
       <<"Reasoning support: ", reasoningSupport.method, " reasoning with ">>
           \o percent(reasoningSupport.confidence) \o <<"% confidence">>,
       <<"Consistency: ", ToString(consistencyCheck.contradictions),
         " contradictions found">>,
       <<"Source reliability: ">> \o percent(sourceReliability) \o <<"% average">> >>

\* Lines 120-137: the row stored and the value returned.
assessmentRow(statement, confidenceLevel, overallConfidence) ==
    [content |-> <<"Confidence", " ", "assessment:", " ">> \o statement
                     \o <<" ", "-", " ", confidenceLevel>>,
     context |-> <<"confidence_assessment">>,
     type |-> "semantic",
     emotional_weight |-> Dec(10),
     confidence |-> overallConfidence]

assessed(mem, statement, reasoningSupport, factors, breakdown, overallConfidence) ==
    [memories |-> store(mem, assessmentRow(statement,
                                 categorizeConfidence(overallConfidence),
                                 overallConfidence)),
     eng |-> reasoningSupport.eng,
     made |-> reasoningSupport.made,
     value |-> [level |-> categorizeConfidence(overallConfidence),
                score |-> overallConfidence,
                factors |-> factors,
                breakdown |-> breakdown]]

weigh(mem, statement, reasoningSupport, factors, breakdown) ==
    assessed(mem, statement, reasoningSupport, factors, breakdown, overallOf(breakdown))

combine(mem, statement, memorySupport, reasoningSupport, consistencyCheck, sourceReliability) ==
    weigh(mem, statement, reasoningSupport,
          factorsOf(memorySupport, reasoningSupport, consistencyCheck, sourceReliability),
          breakdownOf(memorySupport, reasoningSupport, consistencyCheck,
                      sourceReliability))

\* assessConfidence(statement, evidence) on the engine eng and the store mem:
\* the store and the engine after the call, the calls of reason() it made and
\* the value it returned.
assessConfidence(eng, mem, statement, evidence) ==
    combine(mem, statement,
            assessMemorySupport(mem, statement),
            assessReasoningSupport(eng, statement, evidence),
            checkConsistency(mem, statement),
            assessSourceReliability(evidence))

-----------------------------------------------------------------------------
(* The integration layer over a memory store that may fail *)

\* A query of the memory store (search, getReasoningHistory, store) rejects
\* with the error of the database when the store fails.  failAt numbers the
\* query of a call that fails: 1, 2 or 3 in the order the call makes them, 0
\* when none does.
StoreError == <<"Error: SQLITE_ERROR">>

\* The call threw: nothing was written.
Rejected(mem, trace) ==
    [threw |-> TRUE, error |-> StoreError, value |-> <<>>, memories |-> mem,
     reflections |-> <<>>, trace |-> trace]

\* The call returned value, having left the store as memories.
Completed(mem, value, reflections, trace) ==
    [threw |-> FALSE, error |-> <<>>, value |-> value, memories |-> mem,
     reflections |-> reflections, trace |-> trace]

\* The calls assessConfidence makes on its collaborators up to its n-th query
\* of the store: the search of assessMemorySupport, the calls of reason() of
\* assessReasoningSupport, the search of checkConsistency, the store.
assessmentCalls(made, n) ==
    IF n = 1 THEN <<"search">>
    ELSE <<"search">> \o [i \in DOMAIN made |-> "reason"]
             \o SubSeq(<<"search", "store">>, 1, n - 1)

\* Lines 90-137 once assessReasoningSupport has returned.
afterReasoningSupport(mem, statement, evidence, failAt, reasoningSupport) ==
    [eng |-> reasoningSupport.eng, made |-> reasoningSupport.made]
    @@ IF failAt \in {2, 3}
       THEN Rejected(mem, assessmentCalls(reasoningSupport.made, failAt))
       ELSE Completed(
                combine(mem, statement, assessMemorySupport(mem, statement),
                        reasoningSupport, checkConsistency(mem, statement),
                        assessSourceReliability(evidence)).memories,
                combine(mem, statement, assessMemorySupport(mem, statement),
                        reasoningSupport, checkConsistency(mem, statement),
                        assessSourceReliability(evidence)).value,
                <<>>, assessmentCalls(reasoningSupport.made, 3))

\* assessConfidence(statement, evidence) on a store whose query failAt fails.
assessConfidenceOn(eng, mem, statement, evidence, failAt) ==
    IF failAt = 1
    THEN [eng |-> eng, made |-> <<>>] @@ Rejected(mem, assessmentCalls(<<>>, 1))
    ELSE afterReasoningSupport(mem, statement, evidence, failAt,
                               assessReasoningSupport(eng, statement, evidence))

-----------------------------------------------------------------------------
(* The integration layer: reflect *)

\* Every row was stored within the day of the call: new Date(timestamp)
\* .toDateString() is the same for all rows, and every row is younger than
\* seven days.
toDateString(timestamp) == <<"today">>
isRecent(timestamp) == TRUE

\* The keys of _.groupBy(xs, key), in the order Object.entries visits them:
\* the order of first appearance.  keys is the sequence key(x) for x of xs.
groupKeys(keys) ==
    [k \in DOMAIN SelectSeq([i \in DOMAIN keys |-> i],
                            LAMBDA i : \A j \in 1..(i - 1) : keys[j] # keys[i]) |->
        keys[SelectSeq([i \in DOMAIN keys |-> i],
                       LAMBDA i : \A j \in 1..(i - 1) : keys[j] # keys[i])[k]]]

groupSize(keys, key) == Cardinality({i \in DOMAIN keys : keys[i] = key})

contextsOf(ms) == [i \in DOMAIN ms |-> ms[i].context]

\* Lines 228-234: one tag per context that has more than two memories.
contextPatterns(ms) ==
    [k \in DOMAIN SelectSeq(groupKeys(contextsOf(ms)),
                            LAMBDA c : groupSize(contextsOf(ms), c) > 2) |->
        SelectSeq(groupKeys(contextsOf(ms)),
                  LAMBDA c : groupSize(contextsOf(ms), c) > 2)[k] \o <<"_pattern">>]

\* Lines 237-243: Object.keys(timeGrouped).length < memories.length * 0.7.
temporalPatterns(ms) ==
    IF 10 * Len(groupKeys([i \in DOMAIN ms |-> toDateString(ms[i].timestamp)])) < 7 * Len(ms)
    THEN <<<<"temporal_clustering">>>>
    ELSE <<>>

identifyPatterns(ms) == contextPatterns(ms) \o temporalPatterns(ms)

identifyKnowledgeGaps(topic, ms) ==
    (IF Len(ms) < 3 THEN <<<<"insufficient_information">>>> ELSE <<>>)
    \o (IF 10 * Len(SelectSeq(ms, LAMBDA m : Less(m.confidence, Dec(50)))) > 3 * Len(ms)
        THEN <<<<"low_confidence_knowledge">>>> ELSE <<>>)
    \o (IF Len(groupKeys(contextsOf(ms))) = 1
        THEN <<<<"limited_perspective">>>> ELSE <<>>)

assessTopicConfidence(ms) ==
    IF Len(ms) = 0 THEN Zero
    ELSE MinR(One, Add(Div(sumConfidence(ms), Len(ms)),
                       MinR(Dec(20), Mul(Rat(Len(groupKeys(contextsOf(ms))), 1), Dec(5)))))

\* reduce((sum, m) => sum + (m.emotional_weight || 0), 0)
RECURSIVE sumEmotionalWeight(_)
sumEmotionalWeight(ms) ==
    IF ms = <<>> THEN Zero
    ELSE Add(sumEmotionalWeight(SubSeq(ms, 1, Len(ms) - 1)),
             OrElse(ms[Len(ms)].emotional_weight, Zero))

assessEmotionalResonance(ms) ==
    IF Len(ms) = 0 THEN Zero ELSE Div(sumEmotionalWeight(ms), Len(ms))

baseReflection(ms, patterns, gaps) ==
    [level |-> <<"base">>,
     patterns_identified |-> patterns,
     knowledge_gaps |-> gaps,
     confidence_in_understanding |-> assessTopicConfidence(ms),
     emotional_resonance |-> assessEmotionalResonance(ms),
     summary |-> <<"Based on ", ToString(Len(ms)),
                   " relevant memories, I observe patterns in ">>
                     \o join(patterns, <<",", " ">>) \o <<" with gaps in ">>
                     \o join(gaps, <<",", " ">>)]

generateBaseReflection(topic, ms) ==
    baseReflection(ms, identifyPatterns(ms), identifyKnowledgeGaps(topic, ms))

generateMetaQuestions(reflection, level) ==
    <<<<"What assumptions am I making?">>,
      <<"What might I be missing?">>,
      <<"How reliable is my reasoning process?">>,
      <<"What biases might be influencing my thinking?">>>>
    \o (IF level > 1
        THEN <<<<"How has my understanding changed?">>,
               <<"What would change my mind about this?">>,
               <<"What are the implications of being wrong?">>>>
        ELSE <<>>)

methodsOf(reasoningHistory) == [i \in DOMAIN reasoningHistory |-> reasoningHistory[i].method]

analyzeReasoningPatterns(reasoningHistory) ==
    [k \in DOMAIN groupKeys(methodsOf(reasoningHistory)) |->
        <<groupKeys(methodsOf(reasoningHistory))[k], ": ",
          ToString(groupSize(methodsOf(reasoningHistory),
                             groupKeys(methodsOf(reasoningHistory))[k])),
          " uses">>]

assessPotentialBiases(ms, reasoningHistory) ==
    (IF 10 * Len(SelectSeq(ms, LAMBDA m : isRecent(m.timestamp))) > 7 * Len(ms)
     THEN <<<<"recency_bias">>>> ELSE <<>>)
    \o (IF 10 * Len(SelectSeq(reasoningHistory, LAMBDA r : r.method = "forward"))
              > 8 * Len(reasoningHistory)
        THEN <<<<"confirmation_bias_tendency">>>> ELSE <<>>)

\* A field a reflection of the other kind has is undefined.
hasField(reflection, field) == field \in DOMAIN reflection

identifyUncertaintyAreas(reflection) ==
    (IF hasField(reflection, "confidence_in_understanding")
          /\ Less(reflection.confidence_in_understanding, Dec(70))
     THEN <<<<"topic_understanding">>>> ELSE <<>>)
    \o (IF hasField(reflection, "knowledge_gaps") /\ Len(reflection.knowledge_gaps) > 2
        THEN <<<<"knowledge_completeness">>>> ELSE <<>>)

identifyGrowthOpportunities(reflection, ms) ==
    (IF hasField(reflection, "knowledge_gaps")
          /\ Has(reflection.knowledge_gaps, <<"limited_perspective">>)
     THEN <<<<"seek_diverse_viewpoints">>>> ELSE <<>>)
    \o (IF Len(ms) > 0
          /\ 10 * Len(SelectSeq(ms, LAMBDA m : m.type = "semantic")) < 3 * Len(ms)
        THEN <<<<"build_conceptual_knowledge">>>> ELSE <<>>)

deeperReflection(previousReflection, level, ms, metaQuestions, reasoningPatterns, biases) ==
    [level |-> <<"deep_", ToString(level)>>,
     meta_questions |-> metaQuestions,
     reasoning_patterns |-> reasoningPatterns,
     potential_biases |-> biases,
     uncertainty_areas |-> identifyUncertaintyAreas(previousReflection),
     growth_opportunities |-> identifyGrowthOpportunities(previousReflection, ms),
     summary |-> <<"At depth ", ToString(level), ", I question ",
                   ToString(Len(metaQuestions)), " assumptions and recognize ",
                   ToString(Len(reasoningPatterns)), " reasoning patterns">>]

\* deepenReflection(previousReflection, level, memories, reasoningHistory)
deepenReflection(previousReflection, level, ms, reasoningHistory) ==
    deeperReflection(previousReflection, level, ms,
                     generateMetaQuestions(previousReflection, level),
                     analyzeReasoningPatterns(reasoningHistory),
                     assessPotentialBiases(ms, reasoningHistory))

\* this.reflectionDepth[depth]: <<n>>, or <<>> (undefined) for any other depth.
reflectionDepth(depth) ==
    CASE depth = "surface" -> <<1>>
      [] depth = "deep" -> <<3>>
      [] depth = "philosophical" -> <<5>>
      [] OTHER -> <<>>

\* The loop test with <= for <.
levelTest_inclusive(level, maxReflectionLevels) ==
    maxReflectionLevels # <<>> /\ level <= maxReflectionLevels[1]

\* level < maxReflectionLevels; a comparison with undefined is false.
levelTest(level, maxReflectionLevels) ==
    maxReflectionLevels # <<>> /\ level < maxReflectionLevels[1]

\* Lines 37-40: the loop from level on; currentReflection is the last of
\* reflections.
RECURSIVE deepening(_, _, _, _, _)
deepening(reflections, level, maxReflectionLevels, ms, reasoningHistory) ==
    IF ~levelTest(level, maxReflectionLevels) THEN reflections
    ELSE deepening(Append(reflections,
                          deepenReflection(reflections[Len(reflections)], level, ms,
                                           reasoningHistory)),
                   level + 1, maxReflectionLevels, ms, reasoningHistory)

\* x?.join(', ') || 'None'
joinOrNone(reflection, field) ==
    IF hasField(reflection, field) /\ join(reflection[field], <<",", " ">>) # <<>>
    THEN join(reflection[field], <<",", " ">>)
    ELSE <<"None">>

\* (x * factor).toFixed(1); undefined * factor is NaN, which prints as "NaN".
scaledOrNaN(reflection, field, factor) ==
    IF hasField(reflection, field)
    THEN toFixed1(Mul(reflection[field], Rat(factor, 1)))
    ELSE <<"NaN">>

formatReflectionOutput(topic, depth, reflections) ==
    <<"## Reflection on ">> \o topic \o <<" (", depth, " level)",
      "\n\n**Key Insights:**\n">>
    \o reflections[Len(reflections)].summary
    \o <<"\n\n**Patterns Identified:**\n">>
    \o joinOrNone(reflections[Len(reflections)], "patterns_identified")
    \o <<"\n\n**Areas of Uncertainty:**\n">>
    \o joinOrNone(reflections[Len(reflections)], "uncertainty_areas")
    \o <<"\n\n**Growth Opportunities:**\n">>
    \o joinOrNone(reflections[Len(reflections)], "growth_opportunities")
    \o <<"\n\n**Confidence in Understanding:** ">>
    \o scaledOrNaN(reflections[Len(reflections)], "confidence_in_understanding", 100)
    \o <<"%", "\n\n**Emotional Resonance:** ">>
    \o scaledOrNaN(reflections[Len(reflections)], "emotional_resonance", 10)
    \o <<"/10", "\n\n---\n*This reflection was generated through ",
         ToString(Len(reflections)), " levels of meta-cognitive analysis.*">>

\* Lines 43-49: the row stored; an object in a template prints as
\* "[object Object]".
reflectionRow(topic, depth) ==
    [content |-> <<"Reflection", " ", "on", " ">> \o topic
                     \o <<":", " ", "[object", " ", "Object]">>,
     context |-> <<"meta_cognition">>,
     type |-> "semantic",
     emotional_weight |-> Dec(30),
     tags |-> <<<<"reflection", ",">> \o topic \o <<",", "depth_", depth>>>>]

\* Lines 33-51, with the memories and the history read.
reflected(mem, topic, depth, failAt, reflections) ==
    IF failAt = 3 THEN Rejected(mem, <<"search", "history", "store">>)
    ELSE Completed(store(mem, reflectionRow(topic, depth)),
                   formatReflectionOutput(topic, depth, reflections),
                   reflections, <<"search", "history", "store">>)

\* reflect that stores its row before it reads the reasoning history.
reflect_storingFirst(mem, topic, depth, failAt) ==
    IF failAt = 1 THEN Rejected(mem, <<"search">>)
    ELSE IF failAt = 2
    THEN Rejected(store(mem, reflectionRow(topic, depth)), <<"search", "store", "history">>)
    ELSE reflected(mem, topic, depth, failAt,
                   deepening(<<generateBaseReflection(topic,
                                  memorySearch(mem, topic, Null, 20))>>,
                             1, reflectionDepth(depth),
                             memorySearch(mem, topic, Null, 20), <<>>))

\* reflect(topic, depth) on a store whose query failAt fails.  The table of
\* reasoning history of the store is empty: nothing calls storeReasoningHistory.
reflect(mem, topic, depth, failAt) ==
    IF failAt = 1 THEN Rejected(mem, <<"search">>)
    ELSE IF failAt = 2 THEN Rejected(mem, <<"search", "history">>)
    ELSE reflected(mem, topic, depth, failAt,
                   deepening(<<generateBaseReflection(topic,
                                  memorySearch(mem, topic, Null, 20))>>,
                             1, reflectionDepth(depth),
                             memorySearch(mem, topic, Null, 20), <<>>))

\* layer.count is the number of calls of reflect and assessConfidence made on
\* a store that may fail (Reflect, AssessConfidenceOn) so far;
\* depth is the depth the last call of reflect was given and failAt the query
\* of the store that failed during the last call, 0 if none did.
NoLayerCall ==
    [count |-> 0, operation |-> "", depth |-> "", failAt |-> 0, threw |-> FALSE, error |-> <<>>, value |-> <<>>,
     reflections |-> <<>>, trace |-> <<>>]

\* assessment.count is the number of calls of assessConfidence so far.
NoAssessment == [count |-> 0, statement |-> <<>>, evidence |-> <<>>, value |-> <<>>]

-----------------------------------------------------------------------------
(* The engine's operations as actions *)

MaxCalls == 2

Init ==
    /\ rules = <<>>
    /\ facts = <<>>
    /\ uncertainties = EmptyMap
    /\ reasoning_history = <<>>
    /\ returned = NoReturn
    /\ searchLog = <<>>
    /\ calls = 0
    /\ failures = 0
    /\ memories = <<>>
    /\ assessment = NoAssessment
    /\ run = NoRun
    /\ layer = NoLayerCall

layerVars == <<memories, assessment, layer>>

\* initialize(), which every caller awaits right after the constructor.
Initialize ==
    /\ rules = <<>>
    /\ rules' = loadBasicRules(rules)
    /\ UNCHANGED <<facts, uncertainties, reasoning_history, returned, searchLog,
                   calls, failures, layerVars, run>>

AddRule(name, rule) ==
    /\ rules' = addRule(rules, name, rule)
    /\ UNCHANGED <<facts, uncertainties, reasoning_history, returned, searchLog,
                   calls, failures, layerVars, run>>

AddFact(fact, confidence) ==
    /\ LET kb == addFact([facts |-> facts, uncertainties |-> uncertainties],
                         fact, confidence)
       IN  facts' = kb.facts /\ uncertainties' = kb.uncertainties
    /\ UNCHANGED <<rules, reasoning_history, returned, searchLog, calls, failures,
                   layerVars, run>>

Returned(request, r) ==
    /\ rules' = r.eng.rules
    /\ facts' = r.eng.facts
    /\ uncertainties' = r.eng.uncertainties
    /\ reasoning_history' = r.eng.reasoning_history
    /\ returned' = [called |-> TRUE, request |-> request, threw |-> r.threw,
                    error |-> r.error, value |-> r.value]
    /\ searchLog' = r.log
    /\ calls' = calls + 1
    /\ failures' = IF r.threw THEN failures + 1 ELSE failures

Reason(request) ==
    /\ calls < MaxCalls
    /\ Returned(request, reason(Engine, request))
    /\ UNCHANGED <<layerVars, run>>

\* clear() without this.uncertainties.clear().
Clear_factsOnly ==
    /\ facts' = <<>>
    /\ UNCHANGED <<rules, uncertainties, reasoning_history, returned, searchLog, calls,
                   failures, layerVars, run>>

\* clear()
Clear ==
    /\ facts' = <<>>
    /\ uncertainties' = EmptyMap
    /\ UNCHANGED <<rules, reasoning_history, returned, searchLog, calls, failures,
                   layerVars, run>>

-----------------------------------------------------------------------------
(* The inputs of the main specification: a propositional rule set *)

P == <<"P">>
Q == <<"Q">>

Rule(name, pattern, conclusion, confidence) ==
    [name |-> name,
     rule |-> [pattern |-> pattern, conclusion |-> conclusion, confidence |-> confidence]]

Requests(Premises, Goals, Methods) ==
    {[premises |-> p, goal |-> g, method |-> m] : p \in Premises, g \in Goals, m \in Methods}

AllMethods == {<<"forward">>, <<"backward">>, <<"abductive">>, <<"deductive">>, <<>>}

Fact(fact, confidence) == [fact |-> fact, confidence |-> confidence]

\* Rules P => Q and Q => P (a cycle); P asserted with a confidence outside
\* [0,1], Q asserted with one inside.
RuleInputs ==
    {Rule("pq", <<P>>, Q, Dec(95)),
     Rule("qp", <<Q>>, P, Dec(90))}

FactInputs == {Fact(P, Dec(150)), Fact(Q, Dec(50))}

RequestInputs == Requests({<<>>, <<P>>}, {Q}, AllMethods)

\* The engine with the rules its caller registers; the built-in rules, which
\* match none of these facts, are loaded in SpecBuiltin and SpecVariable.
Next ==
    \/ \E r \in RuleInputs : AddRule(r.name, r.rule)
    \/ \E f \in FactInputs : AddFact(f.fact, f.confidence)
    \/ \E q \in RequestInputs : Reason(q)
    \/ Clear

Spec == Init /\ [][Next]_vars

-----------------------------------------------------------------------------
(* The built-in rule set: abduction over observations *)

Grass == <<"The", " ", "grass", " ", "is", " ", "wet">>
Rained == <<"It", " ", "rained">>
Effect == <<"the", " ", "effect">>

\* Two rules that explain the observation Effect with the product 0.84 x 0.5,
\* which is the product 0.6 x 0.7 of the causal heuristic.
BuiltinRuleInputs ==
    {Rule("tie1", <<<<"X">>>>, Effect, Dec(84)),
     Rule("tie2", <<<<"Y">>>>, Effect, Dec(84))}

BuiltinFactInputs == {Fact(Not(<<"Y">>), One), Fact(Var("P"), One), Fact(<<"Y">>, One)}

BuiltinRequestInputs ==
    Requests({<<Grass>>}, {Rained}, {<<"abductive">>})
        \cup Requests({<<>>}, {Effect}, {<<"abductive">>})

NextBuiltin ==
    \/ Initialize
    \/ \E r \in BuiltinRuleInputs : AddRule(r.name, r.rule)
    \/ \E f \in BuiltinFactInputs : AddFact(f.fact, f.confidence)
    \/ \E q \in BuiltinRequestInputs : Reason(q)
    \/ Clear

SpecBuiltin == Init /\ [][NextBuiltin]_vars

-----------------------------------------------------------------------------
(* The caps: a rule that derives a fresh fact on every pass *)

A == <<"a">>

\* grow(n): "a" followed by n "+".
RECURSIVE grow(_)
grow(n) == IF n = 0 THEN A ELSE grow(n - 1) \o <<"+">>

GrowGoal == 3

RunawayRuleInputs ==
    {Rule("grow", <<Var("X")>>, Var("X") \o <<"+">>, One),
     Rule("ab", <<A>>, <<"b">>, Dec(50))}

RunawayFactInputs == {Fact(A, Dec(50))}

RunawayRequestInputs == Requests({<<>>}, {grow(GrowGoal), <<"b">>}, {<<"forward">>})

NextRunaway ==
    \/ \E r \in RunawayRuleInputs : AddRule(r.name, r.rule)
    \/ \E f \in RunawayFactInputs : AddFact(f.fact, f.confidence)
    \/ \E q \in RunawayRequestInputs : Reason(q)
    \/ Clear

SpecRunaway == Init /\ [][NextRunaway]_vars

-----------------------------------------------------------------------------
(* Forward chaining turn by turn: the working fact set between passes *)

\* reason(request) with the forward method, up to the first test of the while
\* loop: the premises are facts and the working set is a copy of the facts.
BeginForward(request) ==
    /\ ~run.active
    /\ calls < MaxCalls
    /\ methodOf(request) = "forward"
    /\ LET kb == addPremises([facts |-> facts, uncertainties |-> uncertainties],
                             request.premises)
       IN  /\ facts' = kb.facts
           /\ uncertainties' = kb.uncertainties
           /\ run' = [active |-> TRUE, request |-> request,
                      st |-> forwardStart(ingest(Engine, kb))]
    /\ UNCHANGED <<rules, reasoning_history, returned, searchLog, calls, failures,
                   layerVars>>

\* One turn of the while loop: the test and, if it passes, one pass over the
\* rules, which writes the confidences and the usage counts as it goes.
ForwardTurn ==
    /\ run.active
    /\ run.st.ret = "none"
    /\ run' = [run EXCEPT !.st = whileTurn(@, run.request.goal)]
    /\ rules' = run'.st.rules
    /\ uncertainties' = run'.st.uncertainties
    /\ UNCHANGED <<facts, reasoning_history, returned, searchLog, calls, failures,
                   layerVars>>

\* The return of forwardChain and lines 97-106 of reason.
ForwardReturn ==
    /\ run.active
    /\ run.st.ret # "none"
    /\ Returned(run.request,
                afterForward(Engine, run.request, "forward",
                             forwardReturn(run.st, run.request.goal)))
    /\ run' = NoRun
    /\ UNCHANGED layerVars

\* The goal may also be the asserted fact; that call is made while the rule
\* that never settles is not registered.
PassesRequestInputs == RunawayRequestInputs \cup Requests({<<>>}, {A}, {<<"forward">>})

PassesRequest(q) == q.goal = A => RuleIndex(rules, "grow") = 0

\* The engine runs one call at a time: forwardChain does not yield.
NextPasses ==
    \/ \E r \in RunawayRuleInputs : ~run.active /\ AddRule(r.name, r.rule)
    \/ \E f \in RunawayFactInputs : ~run.active /\ AddFact(f.fact, f.confidence)
    \/ \E q \in PassesRequestInputs : PassesRequest(q) /\ BeginForward(q)
    \/ ForwardTurn
    \/ ForwardReturn
    \/ ~run.active /\ Clear

SpecPasses == Init /\ [][NextPasses]_vars

-----------------------------------------------------------------------------
(* The caps: a chain of rules deeper than the depth cap, closed into a cycle *)

MaxChain == 12

G(i) == <<"G", ToString(i)>>

\* G(i+1) => G(i); the rule after the last closes the cycle, G(0) => G(MaxChain).
ChainRule(i) ==
    IF i < MaxChain
    THEN Rule(ToString(i), <<G(i + 1)>>, G(i), Dec(50))
    ELSE Rule(ToString(i), <<G(0)>>, G(MaxChain), Dec(50))

\* The caller registers the chain in order.
AddChainRule ==
    /\ Len(rules) <= MaxChain
    /\ AddRule(ChainRule(Len(rules)).name, ChainRule(Len(rules)).rule)

\* A second rule for G(0), registered after the chain, that asks twice for
\* the sub-goal the chain reaches beyond the depth cap.
ShortcutRule == Rule("short", <<G(maxDepth + 1), G(maxDepth + 1)>>, G(0), Dec(50))

AddShortcut ==
    /\ Len(rules) > MaxChain
    /\ AddRule(ShortcutRule.name, ShortcutRule.rule)

\* The fact sits at depth 11 of the search for G(0), at depth 10 of the search
\* for G(1).
DeepFactInputs == {Fact(G(maxDepth + 1), One)}

DeepRequestInputs == Requests({<<>>}, {G(0), G(1)}, {<<"backward">>})

NextDeep ==
    \/ AddChainRule
    \/ AddShortcut
    \/ \E f \in DeepFactInputs : AddFact(f.fact, f.confidence)
    \/ \E q \in DeepRequestInputs : Reason(q)
    \/ Clear

SpecDeep == Init /\ [][NextDeep]_vars

-----------------------------------------------------------------------------
(* The integration layer over the engine and the memory store *)

MaxMemories == 3

\* memory.store(memoryData), by a caller of the memory manager.
Store(memoryData) ==
    /\ Len(memories) < MaxMemories
    /\ memories' = store(memories, memoryData)
    /\ UNCHANGED <<rules, facts, uncertainties, reasoning_history, returned, searchLog,
                   calls, failures, assessment, run, layer>>

\* The calls of reason() that an assessment made, in the engine's record.
Invoked(made) ==
    /\ returned' = IF made = <<>> THEN returned
                   ELSE [called |-> TRUE, request |-> made[Len(made)].request,
                         threw |-> made[Len(made)].threw,
                         error |-> made[Len(made)].error,
                         value |-> made[Len(made)].value]
    /\ searchLog' = IF made = <<>> THEN searchLog ELSE made[Len(made)].log
    /\ calls' = calls + Len(made)
    /\ failures' = failures + Len(SelectSeq(made, LAMBDA m : m.threw))

\* The record of a call of the integration layer that ended as r.
LayerCall(operation, depth, failAt, r) ==
    [count |-> layer.count + 1, operation |-> operation, depth |-> depth,
     failAt |-> failAt, threw |-> r.threw,
     error |-> r.error, value |-> r.value, reflections |-> r.reflections,
     trace |-> r.trace]

Assessed(statement, evidence, a) ==
    /\ memories' = a.memories
    /\ rules' = a.eng.rules
    /\ facts' = a.eng.facts
    /\ uncertainties' = a.eng.uncertainties
    /\ reasoning_history' = a.eng.reasoning_history
    /\ Invoked(a.made)
    /\ assessment' = [count |-> assessment.count + 1, statement |-> statement,
                      evidence |-> evidence, value |-> a.value]
    /\ UNCHANGED <<run, layer>>

\* integration.assessConfidence(statement, evidence)
AssessConfidence(statement, evidence) ==
    /\ Len(memories) < MaxMemories
    /\ Assessed(statement, evidence, assessConfidence(Engine, memories, statement, evidence))

X == <<"X">>
E == <<"E">>
NotX == <<"not", " ", "X">>

\* A rule without premises, on which forward chaining throws, and a rule
\* with neither premises nor conclusion nor confidence, on which abduction
\* throws as well.
LayerRuleInputs ==
    {Rule("axiom", <<>>, X, Dec(80)),
     Rule("bare", <<>>, Absent, Undefined)}

MemoryInputs ==
    {[content |-> X],
     [content |-> NotX, confidence |-> Dec(50)],
     [content |-> <<"Y">>, context |-> X, emotional_weight |-> Dec(50)]}

StatementInputs == {X, NotX}

EvidenceInputs == {<<>>, <<E>>}

NextLayer ==
    \/ \E r \in LayerRuleInputs : AddRule(r.name, r.rule)
    \/ \E m \in MemoryInputs : Store(m)
    \/ \E s \in StatementInputs : \E e \in EvidenceInputs : AssessConfidence(s, e)

SpecLayer == Init /\ [][NextLayer]_vars

\* The assessments over a rule from the evidence to the statement and the
\* memories of the statement and of its negation.
ScoreRuleInputs == {Rule("ex", <<E>>, X, Dec(90))}

ScoreMemoryInputs ==
    {[content |-> X],
     [content |-> NotX, confidence |-> Dec(50)]}

NextScore ==
    \/ \E r \in ScoreRuleInputs : AddRule(r.name, r.rule)
    \/ \E m \in ScoreMemoryInputs : Store(m)
    \/ \E s \in StatementInputs : \E e \in EvidenceInputs : AssessConfidence(s, e)

SpecScore == Init /\ [][NextScore]_vars

-----------------------------------------------------------------------------
(* Reflection and assessment over a memory store that may fail *)

\* integration.reflect(topic, depth) while the store fails its query failAt.
Reflected(depth, failAt, r) ==
    /\ memories' = r.memories
    /\ layer' = LayerCall("reflect", depth, failAt, r)
    /\ UNCHANGED <<rules, facts, uncertainties, reasoning_history, returned, searchLog,
                   calls, failures, assessment, run>>

Reflect(topic, depth, failAt) ==
    /\ layer.count < MaxCalls
    /\ Reflected(depth, failAt, reflect(memories, topic, depth, failAt))

\* integration.assessConfidence(statement, evidence) while the store fails
\* its query failAt; a call that throws returns no assessment.
AssessedOn(statement, evidence, failAt, r) ==
    /\ memories' = r.memories
    /\ rules' = r.eng.rules
    /\ facts' = r.eng.facts
    /\ uncertainties' = r.eng.uncertainties
    /\ reasoning_history' = r.eng.reasoning_history
    /\ Invoked(r.made)
    /\ assessment' = IF r.threw THEN assessment
                     ELSE [count |-> assessment.count + 1, statement |-> statement,
                           evidence |-> evidence, value |-> r.value]
    /\ layer' = LayerCall("assessConfidence", "", failAt, r)
    /\ UNCHANGED run

AssessConfidenceOn(statement, evidence, failAt) ==
    /\ layer.count < MaxCalls
    /\ AssessedOn(statement, evidence, failAt,
                  assessConfidenceOn(Engine, memories, statement, evidence, failAt))

T == <<"T">>

\* A row about the topic, of low confidence.
ReflectMemoryInputs ==
    {[content |-> T, context |-> <<"work">>, confidence |-> Dec(40),
      emotional_weight |-> Dec(50)]}

\* Every depth on a store that works, and each failure at one depth.
ReflectInputs ==
    {[depth |-> d, failAt |-> 0] : d \in {"surface", "deep", "philosophical"}}
        \cup {[depth |-> "deep", failAt |-> k] : k \in 1..3}

\* The statement assessed is not the topic reflected on: neither call finds
\* the rows the other wrote.
NextReflect ==
    \/ \E m \in ReflectMemoryInputs : Store(m)
    \/ \E i \in ReflectInputs : Reflect(T, i.depth, i.failAt)
    \/ \E k \in 0..3 : AssessConfidenceOn(X, <<E>>, k)

SpecReflect == Init /\ [][NextReflect]_vars

-----------------------------------------------------------------------------
(* The knowledge base over time: confidences of 0, facts asserted twice *)

R == <<"R">>

\* Two rules that conclude Q, one of base confidence 0.
StoredRuleInputs ==
    {Rule("pq", <<P>>, Q, Zero),
     Rule("rq", <<R>>, Q, Dec(90))}

\* P is asserted with two confidences, one of them 0.
StoredFactInputs == {Fact(P, Zero), Fact(P, Dec(50))}

StoredRequestInputs ==
    Requests({<<>>, <<R>>}, {Q},
             {<<"forward">>, <<"backward">>, <<"abductive">>, <<"deductive">>})
        \cup Requests({<<>>}, {P}, {<<"backward">>})

NextStored ==
    \/ \E r \in StoredRuleInputs : AddRule(r.name, r.rule)
    \/ \E f \in StoredFactInputs : AddFact(f.fact, f.confidence)
    \/ \E q \in StoredRequestInputs : Reason(q)
    \/ Clear

SpecStored == Init /\ [][NextStored]_vars

-----------------------------------------------------------------------------
(* A rule registered again under its name with another premise *)

\* "pq" concludes Q from P, and, registered again, from R.
ReplacedRuleInputs ==
    {Rule("pq", <<P>>, Q, Dec(90)),
     Rule("pq", <<R>>, Q, Dec(90))}

ReplacedFactInputs == {Fact(P, Dec(50)), Fact(R, Dec(50))}

ReplacedRequestInputs ==
    Requests({<<>>}, {Q}, {<<"forward">>, <<"backward">>, <<"abductive">>})

NextReplaced ==
    \/ \E r \in ReplacedRuleInputs : AddRule(r.name, r.rule)
    \/ \E f \in ReplacedFactInputs : AddFact(f.fact, f.confidence)
    \/ \E q \in ReplacedRequestInputs : Reason(q)
    \/ Clear

SpecReplaced == Init /\ [][NextReplaced]_vars

-----------------------------------------------------------------------------
(* Variable-free rules: a chain, a rule of two premises, a rule of none *)

\* P => Q, Q & R => "S", and "ax", which concludes R from no premise.
HornRuleInputs ==
    {Rule("pq", <<P>>, Q, Dec(90)),
     Rule("qrs", <<Q, R>>, <<"S">>, Dec(90)),
     Rule("ax", <<>>, R, Dec(90))}

HornFactInputs == {Fact(P, Dec(50)), Fact(R, Dec(50))}

HornRequestInputs == Requests({<<>>}, {Q, R, <<"S">>}, {<<"forward">>})

NextHorn ==
    \/ \E r \in HornRuleInputs : AddRule(r.name, r.rule)
    \/ \E f \in HornFactInputs : AddFact(f.fact, f.confidence)
    \/ \E q \in HornRequestInputs : Reason(q)
    \/ Clear

SpecHorn == Init /\ [][NextHorn]_vars

-----------------------------------------------------------------------------
(* Variables: the built-in rules and a rule whose conclusion is a variable *)

Antecedent == <<"A">>
Consequent == <<"B">>

\* "any" concludes ?Q from the variable-free premise P.
VariableRuleInputs == {Rule("any", <<P>>, Var("Q"), Dec(90))}

VariableFactInputs == {Fact(P, Dec(50)), Fact(Antecedent, One)}

\* The premises "A → B" and "A" with the goal "B", and the goal alone.
VariableRequestInputs ==
    Requests({<<>>, <<Implies(Antecedent, Consequent), Antecedent>>}, {Consequent},
             {<<"forward">>, <<"backward">>})

NextVariable ==
    \/ Initialize
    \/ \E r \in VariableRuleInputs : AddRule(r.name, r.rule)
    \/ \E f \in VariableFactInputs : AddFact(f.fact, f.confidence)
    \/ \E q \in VariableRequestInputs : Reason(q)
    \/ Clear

SpecVariable == Init /\ [][NextVariable]_vars

-----------------------------------------------------------------------------
(* Properties of the reasoning engine *)

\* The last call of reason() returned a result.
Answered == returned.called /\ ~returned.threw

\* The step is a call of reason(request).
Calls(request) == calls' = calls + 1 /\ returned'.request = request

\* C1: after any sequence of addFact, addRule, reason and clear, every
\* confidence in the confidence table and every confidence returned by
\* reason() lies in [0,1].
C1_ConfidencesInUnit ==
    /\ \A v \in MapValues(uncertainties) : InUnit(v)
    /\ Answered => InUnit(returned.value.confidence)

ForwardAnswered == Answered /\ methodOf(returned.request) = "forward"

\* C2: forwardChain returns, also with a rule that yields a fresh fact on
\* every pass, after at most 100 passes: the iterations count it returns is at
\* most 100.
C2_ForwardPassesCapped == ForwardAnswered => returned.value.iterations <= 100

\* A run that derived a fresh fact on each of 100 passes and was cut off.
C2_Witness ==
    /\ ForwardAnswered
    /\ returned.value.iterations = 100
    /\ Len(returned.value.steps) = 100
    /\ ~returned.value.found

\* C3: the search of backwardChain expands no sub-goal at a depth greater
\* than 10, and a sub-goal reached at a depth greater than 10 is reported as
\* not found with confidence 0.
C3_DepthCapped ==
    \A i \in DOMAIN searchLog :
        /\ searchLog[i].outcome \in {"expand", "fact"} => searchLog[i].depth <= 10
        /\ searchLog[i].depth > 10 =>
               /\ searchLog[i].outcome = "depth"
               /\ ~searchLog[i].found
               /\ searchLog[i].confidence = Zero

\* A search along the cyclic chain that reached depth 11 at a sub-goal which is
\* an asserted fact, and so failed.
C3_Witness ==
    /\ Answered
    /\ ~returned.value.found
    /\ \E i \in DOMAIN searchLog :
           /\ searchLog[i].depth = 11
           /\ searchLog[i].outcome = "depth"
           /\ Has(facts, searchLog[i].goal)
    /\ \E i \in DOMAIN searchLog :
           searchLog[i].depth = 10 /\ searchLog[i].outcome = "expand"

UnknownMethod(request) ==
    /\ request.method # <<>>
    /\ request.method[1] \notin {"forward", "backward", "abductive"}

\* C4: reason() with a method string other than "forward", "backward" or
\* "abductive" fails with the unknown-method error and returns no result.
C4_UnknownMethodRejected ==
    returned.called /\ UnknownMethod(returned.request) =>
        /\ returned.threw
        /\ returned.error = <<"Unknown reasoning method: ", returned.request.method[1]>>
        /\ returned.value = <<>>

C4_Witness ==
    /\ returned.called
    /\ returned.request.method = <<"deductive">>
    /\ returned.threw
    /\ rules # <<>>

IsPQ(rule) == rule.pattern = <<P>> /\ rule.conclusion = Q /\ rule.confidence = Dec(95)

C5_Request == [premises |-> <<P>>, goal |-> Q, method |-> <<"forward">>]

\* The scenario's engine: the registered rules are P => Q at 0.95, and Q is
\* not itself an asserted fact.
C5_Scenario ==
    /\ rules # <<>>
    /\ \A i \in DOMAIN rules : IsPQ(rules[i])
    /\ ~Has(facts, Q)

\* C5: with the rule P => Q of confidence 0.95 registered,
\* reason({premises: ["P"], goal: "Q", method: "forward"}) returns found:true,
\* conclusion "Q" and confidence 0.95.
C5_ForwardScenario ==
    [][C5_Scenario /\ Calls(C5_Request) =>
          /\ ~returned'.threw
          /\ returned'.value.found
          /\ returned'.value.conclusion = Q
          /\ returned'.value.confidence = Dec(95)]_vars

C5_Witness ==
    /\ Answered
    /\ returned.request = C5_Request
    /\ returned.value.found
    /\ returned.value.confidence = Dec(95)
    /\ returned.value.appliedRules = <<"pq">>
    /\ Len(rules) = 1
    /\ IsPQ(rules[1])
    /\ facts = <<P>>

C6_Request == [premises |-> <<Grass>>, goal |-> Rained, method |-> <<"abductive">>]

\* The engine holds the built-in rule set and nothing else.
BuiltinOnly ==
    [i \in DOMAIN rules |-> [rules[i] EXCEPT !.usage_count = 0]] = loadBasicRules(<<>>)

\* C6 as stated: on an initialized engine holding only the built-in rules,
\* reason({premises: ["The grass is wet"], goal: "It rained", method:
\* "abductive"}) returns found:false, "No explanation found", confidence 0.
C6_NoExplanation ==
    [][BuiltinOnly /\ Calls(C6_Request) =>
          /\ ~returned'.threw
          /\ ~returned'.value.found
          /\ returned'.value.conclusion = <<"No explanation found">>
          /\ returned'.value.confidence = Zero]_vars

\* C6 as amended: the call returns found:true with a "Best explanation"
\* conclusion and a positive confidence, since the conclusions "?Q" and
\* "?P → ?R" of the built-in rules begin with the variable mark and unify with
\* every observation; with no fact asserted before the call the explanations
\* are modus_ponens, hypothetical_syllogism and uncertainty_propagation in
\* that order, the conclusion is "Best explanation: ?P → ?Q & ?P" and the
\* confidence is 0.95 x 0.25 = 0.2375.
C6_BestExplanation ==
    [][BuiltinOnly /\ Calls(C6_Request) =>
          /\ ~returned'.threw
          /\ returned'.value.found
          /\ returned'.value.conclusion[1] = "Best explanation: "
          /\ Less(Zero, returned'.value.confidence)
          /\ facts = <<>> =>
                /\ [i \in DOMAIN returned'.value.explanations |->
                       returned'.value.explanations[i].rule]
                     = <<"modus_ponens", "hypothetical_syllogism",
                         "uncertainty_propagation">>
                /\ returned'.value.conclusion
                     = <<"Best explanation: ">> \o Implies(Var("P"), Var("Q"))
                          \o <<" ", "&", " ">> \o Var("P")
                /\ returned'.value.confidence = Rat(2375, 10000)]_vars

C6_Witness ==
    /\ Answered
    /\ returned.request = C6_Request
    /\ BuiltinOnly
    /\ facts = <<Grass>>
    /\ returned.value.found
    /\ returned.value.confidence = Rat(2375, 10000)

\* A step that is a call of assessConfidence(statement, evidence).
Assesses(statement, evidence) ==
    /\ assessment'.count = assessment.count + 1
    /\ assessment'.statement = statement
    /\ assessment'.evidence = evidence

\* C7 as stated: assessConfidence("X", []) against an empty memory store
\* returns the overall score 0.3 and the level "low".
C7_ScoreThreeTenths ==
    [][memories = <<>> /\ Assesses(X, <<>>) =>
          /\ assessment'.value.score = Dec(30)
          /\ assessment'.value.level = "low"]_vars

\* C7 as amended: assessConfidence("X", []) against an empty memory store
\* returns the overall score 0.45, the sum of memory 0, reasoning 0.5 x 0.4,
\* consistency 1 x 0.2 and source 0.5 x 0.1, and the level "low".
C7_ScoreOnEmptyStore ==
    [][memories = <<>> /\ Assesses(X, <<>>) =>
          /\ assessment'.value.breakdown
               = [memory_support |-> Zero,
                  reasoning_support |-> Mul(Dec(50), Dec(40)),
                  consistency |-> Mul(One, Dec(20)),
                  source_reliability |-> Mul(Dec(50), Dec(10))]
          /\ assessment'.value.score = Dec(45)
          /\ assessment'.value.level = "low"]_vars

\* The first assessment, of "X" without evidence, found the store empty: the
\* only row is the one it stored, with the score 0.45.
C7_Witness ==
    /\ assessment.count = 1
    /\ assessment.statement = X
    /\ assessment.evidence = <<>>
    /\ Len(memories) = 1
    /\ memories[1].context = <<"confidence_assessment">>
    /\ memories[1].confidence = Dec(45)
    /\ assessment.value.score = Dec(45)
    /\ assessment.value.level = "low"

\* C8: for every statement and every content of the memory store,
\* assessConfidence called with an empty evidence list reports the
\* reasoning-support method no_evidence with the sub-confidence 0.5 (50.0%), the
\* reasoning_support entry of the breakdown is exactly 0.2, and the reasoning
\* engine is not invoked: no call of reason() is made and the engine's rules,
\* facts, uncertainties and history are as before.
C8_NoEvidenceNoReasoning ==
    [][assessment'.count = assessment.count + 1 /\ assessment'.evidence = <<>> =>
          /\ assessment'.value.factors[2]
               = <<"Reasoning support: ", "no_evidence", " reasoning with ",
                   "50", ".", "0", "% confidence">>
          /\ assessment'.value.breakdown.reasoning_support = Dec(20)
          /\ calls' = calls
          /\ UNCHANGED <<rules, facts, uncertainties, reasoning_history, returned,
                         searchLog, failures>>]_vars

\* An assessment without evidence of a statement that the store supports and
\* that a registered rule concludes, with no call of reason() made so far.
C8_Witness ==
    /\ assessment.count > 0
    /\ assessment.evidence = <<>>
    /\ \E i \in DOMAIN rules : rules[i].conclusion = assessment.statement
    /\ Len(memories) > 1
    /\ assessment.value.breakdown.memory_support # Zero
    /\ assessment.value.breakdown.reasoning_support = Dec(20)
    /\ calls = 0

AbductiveAnswered == Answered /\ methodOf(returned.request) = "abductive"

Product(e) == Mul(e.confidence, e.plausibility)

\* The place of an explanation among the candidates: the rules in
\* registration order, then the causal heuristic.
FromHeuristic(e) == e.rule = "causal_inference" /\ Len(e.premises) = 1
Candidate(e) == IF FromHeuristic(e) THEN Len(rules) + 1 ELSE RuleIndex(rules, e.rule)

\* C9: the explanations returned by abductiveReason are ordered by
\* confidence x plausibility, non-increasing; the first one is reported as the
\* conclusion and its product is the returned confidence; explanations with
\* equal products keep their insertion order (rule registration order, the
\* causal heuristic last).
C9_ExplanationsRanked ==
    AbductiveAnswered =>
        /\ \A i \in 1..(Len(returned.value.explanations) - 1) :
               /\ Leq(Product(returned.value.explanations[i + 1]),
                      Product(returned.value.explanations[i]))
               /\ Product(returned.value.explanations[i + 1])
                    = Product(returned.value.explanations[i])
                  => Candidate(returned.value.explanations[i])
                       < Candidate(returned.value.explanations[i + 1])
        /\ returned.value.found = (returned.value.explanations # <<>>)
        /\ returned.value.explanations # <<>> =>
               /\ returned.value.conclusion
                    = <<"Best explanation: ">>
                        \o join(returned.value.explanations[1].premises, <<" ", "&", " ">>)
               /\ returned.value.confidence = Product(returned.value.explanations[1])

\* Two rules and the causal heuristic tie at 0.42 and come back in insertion
\* order, with the second rule registered first, ahead of lower products.
C9_Witness ==
    /\ AbductiveAnswered
    /\ Len(returned.value.explanations) > 3
    /\ [i \in 1..3 |-> returned.value.explanations[i].rule]
         = <<"tie2", "tie1", "causal_inference">>
    /\ \A i \in 1..3 : Product(returned.value.explanations[i]) = Dec(42)
    /\ Less(Product(returned.value.explanations[4]), Dec(42))

\* C10 as stated: every call of reason() appends one session record, so
\* getReasoningStats().reasoning_sessions equals the number of calls made.
C10_EveryCallRecorded == getReasoningStats(Engine).reasoning_sessions = calls

\* C10 as amended: a call of reason() that returns appends exactly one session
\* record (premises, goal, method, result), a call that throws appends none,
\* no other operation changes the history, and reasoning_sessions equals the
\* number of calls that returned.
C10_ReturnedCallsRecorded ==
    [][/\ calls' = calls + 1 /\ ~returned'.threw =>
             /\ Len(reasoning_history') = Len(reasoning_history) + 1
             /\ SubSeq(reasoning_history', 1, Len(reasoning_history)) = reasoning_history
             /\ reasoning_history'[Len(reasoning_history')].premises
                  = returned'.request.premises
             /\ reasoning_history'[Len(reasoning_history')].goal = returned'.request.goal
             /\ reasoning_history'[Len(reasoning_history')].method
                  = methodOf(returned'.request)
             /\ reasoning_history'[Len(reasoning_history')].result = returned'.value
       /\ calls' = calls + 1 /\ returned'.threw => reasoning_history' = reasoning_history
       /\ calls' = calls => reasoning_history' = reasoning_history
       /\ getReasoningStats(Engine').reasoning_sessions = calls' - failures']_vars

C10_Witness ==
    /\ calls = 2
    /\ failures = 1
    /\ returned.threw
    /\ getReasoningStats(Engine).reasoning_sessions = 1

-----------------------------------------------------------------------------
(* Properties of the knowledge base *)

\* C11: clear() empties the fact table and the confidence table (total_facts
\* becomes 0 and no confidence remains recorded for any proposition) and
\* leaves the rule table, every rule's usage_count and success_rate, and the
\* reasoning history unchanged.
C11_ClearResetsFactsOnly ==
    [][Clear =>
          /\ getReasoningStats(Engine').total_facts = 0
          /\ \A f \in {P, Q, R} : ~MapHas(uncertainties', f)
          /\ uncertainties' = EmptyMap
          /\ rules' = rules
          /\ getReasoningStats(Engine').rule_statistics
               = getReasoningStats(Engine).rule_statistics
          /\ reasoning_history' = reasoning_history]_vars

\* The tables are empty although a rule has fired and a session is recorded:
\* facts and confidences were cleared, the rule's usage_count and the history
\* were not.
C11_Witness ==
    /\ facts = <<>>
    /\ uncertainties = EmptyMap
    /\ reasoning_history # <<>>
    /\ \E i \in DOMAIN rules : rules[i].usage_count > 0

\* The facts of the engine once reason(request) has ingested the premises.
Ingested(request) ==
    addPremises([facts |-> facts, uncertainties |-> uncertainties], request.premises).facts

\* C12: a premise ingested by one reason() call, or a fact asserted by addFact,
\* is an asserted fact after the call, whatever the method and whether or not
\* the call returns, and stays one through every later operation but clear():
\* every step that is not clear() keeps every fact, in its place.
C12_FactsStayUntilClear ==
    [][/\ \A q \in StoredRequestInputs :
              Calls(q) => \A i \in DOMAIN q.premises : Has(facts', q.premises[i])
       /\ \A f \in StoredFactInputs : AddFact(f.fact, f.confidence) => Has(facts', f.fact)
       /\ ~Clear => /\ Len(facts') >= Len(facts)
                    /\ SubSeq(facts', 1, Len(facts)) = facts]_vars

\* R came in as a premise of the first call and P by addFact; the second call,
\* by another method and without premises, still has both.
C12_Witness ==
    /\ Len(reasoning_history) = 2
    /\ reasoning_history[1].premises = <<R>>
    /\ reasoning_history[2].premises = <<>>
    /\ reasoning_history[1].method # reasoning_history[2].method
    /\ Has(facts, R)
    /\ Has(facts, P)
    /\ failures = 0

\* How many times the proposition f is in the fact table.
Occurrences(fs, f) == Cardinality({i \in DOMAIN fs : fs[i] = f})

\* C13: addFact is idempotent per proposition: after addFact(f, c) the fact
\* table holds f exactly once (it grew by one if f was new and not at all if
\* f was there), the stored confidence of f is c, whatever was stored before,
\* and a second addFact(f, c) leaves the state as it is.
C13_AddFactIdempotent ==
    [][\A f \in StoredFactInputs :
          AddFact(f.fact, f.confidence) =>
              /\ Occurrences(facts', f.fact) = 1
              /\ getReasoningStats(Engine').total_facts
                   = getReasoningStats(Engine).total_facts
                       + (IF Has(facts, f.fact) THEN 0 ELSE 1)
              /\ MapGet(uncertainties', f.fact) = f.confidence
              /\ Cardinality({i \in DOMAIN uncertainties' :
                                  uncertainties'[i][1] = f.fact}) = 1
              /\ addFact([facts |-> facts', uncertainties |-> uncertainties'],
                         f.fact, f.confidence)
                   = [facts |-> facts', uncertainties |-> uncertainties']]_vars

\* P was a fact of confidence 0.5 when the last call looked it up, and has
\* been asserted again since, with confidence 0: one fact, the later confidence.
C13_Witness ==
    /\ Answered
    /\ returned.request = [premises |-> <<>>, goal |-> P, method |-> <<"backward">>]
    /\ returned.value.confidence = Dec(50)
    /\ facts = <<P>>
    /\ uncertainties = <<<<P, Zero>>>>

\* C14: during one forwardChain run the working fact set only grows: it
\* starts as the set of asserted facts (the premises among them), every fact
\* in it after a pass is in it after the next one, and the set the result is
\* read from at return is the one the last pass left (found is membership of
\* the goal in it).
C14_WorkingSetGrows ==
    [][/\ ~run.active /\ run'.active => run'.st.derivedFacts = facts'
       /\ run.active /\ run'.active =>
              \A i \in DOMAIN run.st.derivedFacts :
                  Has(run'.st.derivedFacts, run.st.derivedFacts[i])
       /\ run.active /\ ~run'.active =>
              /\ \A i \in DOMAIN facts : Has(run.st.derivedFacts, facts[i])
              /\ returned'.value.found = Has(run.st.derivedFacts, run.request.goal)]_vars

\* A run in its fourth pass or later, with facts derived in several passes on
\* top of the asserted ones.
C14_Witness ==
    /\ run.active
    /\ run.st.iterations > 3
    /\ run.st.ret = "none"
    /\ facts # <<>>
    /\ Len(run.st.derivedFacts) > Len(facts) + 3

\* The stored confidence of p, and d for a proposition with none.
StoredOr(unc, p, d) == IF MapHas(unc, p) THEN MapGet(unc, p) ELSE d

\* The confidence table once reason(request) has ingested the premises.
IngestedConfidences(request) ==
    addPremises([facts |-> facts, uncertainties |-> uncertainties],
                request.premises).uncertainties

\* clamp(rule.confidence x m x rule.success_rate, 0, 1) for a rule without
\* variables, m being the least stored confidence of its premises, 0.5 for a
\* premise without one.
DerivedConfidence(rule, unc) ==
    MaxR(Zero, MinR(One,
        Mul(Mul(rule.confidence,
                MinOf([i \in DOMAIN rule.pattern |-> StoredOr(unc, rule.pattern[i], Dec(50))])),
            rule.success_rate)))

\* C15: the confidence recorded for a fact newly derived by forward chaining
\* is clamp(rule.confidence x m x rule.success_rate, 0, 1), m the minimum of
\* the stored confidences of the premises, with 0.5 only for a premise that
\* has none; a rule of base confidence 0, or a premise of stored confidence 0,
\* gives 0.  Stated for a call in which one rule fires once.
C15_DerivedConfidence ==
    [][\A q \in StoredRequestInputs :
          /\ Calls(q)
          /\ methodOf(q) = "forward"
          /\ ~returned'.threw
          /\ Len(returned'.value.appliedRules) = 1
          => MapGet(uncertainties',
                    rules[RuleIndex(rules, returned'.value.appliedRules[1])].conclusion)
               = DerivedConfidence(rules[RuleIndex(rules, returned'.value.appliedRules[1])],
                                   IngestedConfidences(q))]_vars

-----------------------------------------------------------------------------
(* Properties of the integration layer's reasoning support *)

\* The second line of the factors of the last assessment.
ReasoningLine(method, confidence) ==
    <<"Reasoning support: ", method, " reasoning with ">>
        \o percent(confidence) \o <<"% confidence">>

\* What the last assessment reports as reasoning support.
Reports(method, confidence) ==
    /\ assessment'.value.factors[2] = ReasoningLine(method, confidence)
    /\ assessment'.value.breakdown.reasoning_support = Mul(confidence, Dec(40))

\* The step made one call of reason(), the forward attempt, and it returned.
ForwardReturned(statement, evidence) ==
    /\ calls' = calls + 1
    /\ failures' = failures
    /\ returned'.request
         = [premises |-> evidence, goal |-> statement, method |-> <<"forward">>]
    /\ ~returned'.threw

\* The step made two calls of reason(): the forward attempt, which threw, and
\* the abductive attempt.
AbductiveAttempted(statement, evidence) ==
    /\ calls' = calls + 2
    /\ failures' = failures + (IF returned'.threw THEN 2 ELSE 1)
    /\ returned'.request
         = [premises |-> evidence, goal |-> statement, method |-> <<"abductive">>]

\* After the abductive attempt: 0.8 times its confidence, or 0.3 if it threw.
ReportsAbductive ==
    IF returned'.threw
    THEN Reports("reasoning_failed", Dec(30))
    ELSE Reports("abductive_reasoning", Mul(Dec(80), returned'.value.confidence))

\* C16 as stated: with non-empty evidence assessReasoningSupport first attempts
\* forward chaining from the evidence to the statement; unless that attempt
\* establishes the statement (returns found:true) it attempts abductive
\* reasoning and reports abductive_reasoning with 0.8 times the abductive
\* confidence, or 0.3 with reasoning_failed when the abductive attempt fails
\* as well.
C16_FallbackWhenNotEstablished ==
    [][\A s \in StatementInputs : \A e \in EvidenceInputs \ {<<>>} :
          Assesses(s, e) =>
              \/ /\ ForwardReturned(s, e)
                 /\ returned'.value.found
                 /\ Reports("forward_chaining", returned'.value.confidence)
              \/ /\ AbductiveAttempted(s, e)
                 /\ ReportsAbductive]_vars

\* C16 as amended: with non-empty evidence assessReasoningSupport first
\* attempts forward chaining from the evidence to the statement and, when that
\* call returns, reports forward_chaining with the confidence it returned,
\* whether or not the statement was established; when the forward attempt
\* throws it attempts abductive reasoning and reports abductive_reasoning with
\* 0.8 times the abductive confidence; when the abductive attempt throws as
\* well it reports confidence 0.3 with method reasoning_failed.
C16_FallbackOnThrow ==
    [][\A s \in StatementInputs : \A e \in EvidenceInputs \ {<<>>} :
          Assesses(s, e) =>
              \/ /\ ForwardReturned(s, e)
                 /\ Reports("forward_chaining", returned'.value.confidence)
              \/ /\ AbductiveAttempted(s, e)
                 /\ ReportsAbductive]_vars

\* Two assessments with evidence: in the first the forward attempt threw and
\* the abductive one returned (the one session on record); in the second,
\* the last, both threw and the report is reasoning_failed at 30.0%.
C16_Witness ==
    /\ assessment.count = 2
    /\ assessment.evidence = <<E>>
    /\ calls = 4
    /\ failures = 3
    /\ Len(reasoning_history) = 1
    /\ reasoning_history[1].method = "abductive"
    /\ reasoning_history[1].result.confidence = Dec(80)
    /\ memories[1].confidence = Add(Mul(Dec(64), Dec(40)), Dec(27))
    /\ returned.threw
    /\ assessment.value.factors[2] = ReasoningLine("reasoning_failed", Dec(30))
    /\ assessment.value.breakdown.reasoning_support = Dec(12)

-----------------------------------------------------------------------------
(* Properties of derived facts and of backward chaining *)

\* The conclusions of the rules (without variables) that fired in the last call.
DerivedIn(result) ==
    {rules[RuleIndex(rules, result.appliedRules[i])].conclusion : i \in DOMAIN result.appliedRules}

\* C17 as stated: a fact created by a rule firing during a forward-chaining
\* reason() call becomes part of the engine's fact set: after the call it is
\* counted by getReasoningStats().total_facts and is an asserted fact for
\* later calls.
C17_DerivedFactsAsserted ==
    [][\A q \in StoredRequestInputs :
          Calls(q) /\ methodOf(q) = "forward" /\ ~returned'.threw =>
              /\ \A c \in DerivedIn(returned'.value) : Has(facts', c)
              /\ getReasoningStats(Engine').total_facts
                   = Len(Ingested(q)) + Cardinality(DerivedIn(returned'.value))]_vars

\* C17 as amended: a fact created by a rule firing during a forward-chaining
\* reason() call does not become part of the engine's fact set.  After the call
\* the fact set is the asserted facts and the ingested premises, total_facts
\* counts these alone, and only the confidence of the derived fact is on
\* record; a later backward call for it does not find it in the base case and
\* goes on to the rules.
C17_DerivedFactsNotAsserted ==
    [][\A q \in StoredRequestInputs :
          /\ Calls(q) /\ methodOf(q) = "forward" /\ ~returned'.threw =>
                /\ facts' = Ingested(q)
                /\ getReasoningStats(Engine').total_facts = Len(Ingested(q))
                /\ \A c \in DerivedIn(returned'.value) :
                       ~Has(facts', c) /\ MapHas(uncertainties', c)
          /\ Calls(q) /\ methodOf(q) = "backward" /\ ~Has(Ingested(q), q.goal) =>
                /\ searchLog'[1].goal = q.goal
                /\ searchLog'[1].outcome = "expand"]_vars

\* Forward chaining derived Q and recorded a confidence for it; the backward
\* call that followed did not find Q among the facts and tried the rules.
C17_Witness ==
    /\ Len(reasoning_history) = 2
    /\ reasoning_history[1].method = "forward"
    /\ reasoning_history[1].goal = Q
    /\ reasoning_history[1].result.found
    /\ reasoning_history[1].result.appliedRules # <<>>
    /\ returned.request = [premises |-> <<>>, goal |-> Q, method |-> <<"backward">>]
    /\ MapHas(uncertainties, Q)
    /\ ~Has(facts, Q)
    /\ getReasoningStats(Engine).total_facts = 1
    /\ searchLog[1].outcome = "expand"

\* C18: when backwardChain is asked for a goal that is an asserted fact, it
\* returns found:true with confidence equal to that fact's stored confidence,
\* for every stored confidence in [0,1], 0 included.
C18_FactGoalConfidence ==
    [][\A q \in StoredRequestInputs :
          Calls(q) /\ methodOf(q) = "backward" /\ Has(Ingested(q), q.goal) =>
              /\ ~returned'.threw
              /\ returned'.value.found
              /\ returned'.value.confidence = MapGet(IngestedConfidences(q), q.goal)]_vars

\* The rules that conclude the goal and whose premises are all asserted, as
\* positions in the order of registration of the rules that conclude the goal.
Succeeding(goal, fs) ==
    {k \in DOMAIN concluding(Engine, goal) :
        \A i \in DOMAIN rules[concluding(Engine, goal)[k]].pattern :
            Has(fs, rules[concluding(Engine, goal)[k]].pattern[i])}

First(S) == CHOOSE k \in S : \A j \in S : k <= j

\* The confidences that the last n calls of search returned.
LastReturned(log, n) == [i \in 1..n |-> log[Len(log) - n + i].confidence]

\* C19: for a goal that is not an asserted fact, backwardChain tries the rules
\* whose conclusion matches the goal in registration order and succeeds with
\* the first one whose premises are all satisfied, with confidence = (minimum
\* confidence among that rule's satisfied premises) x that rule's base
\* confidence; later matching rules are not consulted, and if none succeeds
\* the result is found:false, confidence 0.  Stated for rules whose premises
\* are satisfied only as asserted facts, one premise per rule.
C19_FirstRuleWins ==
    [][\A q \in StoredRequestInputs :
          Calls(q) /\ methodOf(q) = "backward" /\ ~Has(Ingested(q), q.goal) =>
              IF Succeeding(q.goal, Ingested(q)) = {}
              THEN /\ ~returned'.value.found
                   /\ returned'.value.confidence = Zero
                   /\ Len(searchLog') = 1 + Len(concluding(Engine, q.goal))
              ELSE /\ returned'.value.found
                   /\ Len(searchLog') = 1 + First(Succeeding(q.goal, Ingested(q)))
                   /\ returned'.value.confidence
                        = Mul(MinOf(LastReturned(searchLog', 1)),
                              rules[concluding(Engine, q.goal)
                                        [First(Succeeding(q.goal, Ingested(q)))]].confidence)]_vars

\* A request of the search that was taken up: the goal was looked up among
\* the facts (and, if it is none, among the rules) and marked visited.
TakenUp(entry) == entry.outcome \in {"expand", "fact"}

\* A request answered not-found with confidence 0 before facts and rules.
Refused(entry) ==
    /\ entry.outcome \in {"visited", "depth"}
    /\ ~entry.found
    /\ entry.confidence = Zero

\* C20 as stated: within one top-level backwardChain call the second and every
\* later request for the same sub-goal text, in any branch and even when the
\* text is an asserted fact, is answered not-found with confidence 0 without
\* consulting facts or rules.
C20_RepeatedSubgoalRefused ==
    \A i, j \in DOMAIN searchLog :
        i < j /\ searchLog[i].goal = searchLog[j].goal => Refused(searchLog[j])

\* C20 as amended: within one top-level backwardChain call no sub-goal text is
\* expanded more than once: once a request for a text has been taken up, which
\* marks the text visited, every later request for the same text, in any
\* branch and even when the text is an asserted fact, is answered not-found
\* with confidence 0 without consulting facts or rules.  (A request cut off
\* by the depth cap does not mark the text.)
C20_VisitedSubgoalRefused ==
    \A i, j \in DOMAIN searchLog :
        i < j /\ searchLog[i].goal = searchLog[j].goal /\ TakenUp(searchLog[i])
            => Refused(searchLog[j])

\* One search asked three times for the same asserted fact: beyond the depth
\* cap (cut off, not marked), then within it (found, marked), then again
\* (refused as visited), so that the rule asking twice failed.
C20_Witness ==
    /\ Answered
    /\ ~returned.value.found
    /\ \E i, j, k \in DOMAIN searchLog :
           /\ i < j /\ j < k
           /\ searchLog[i].goal = searchLog[j].goal
           /\ searchLog[j].goal = searchLog[k].goal
           /\ Has(facts, searchLog[k].goal)
           /\ searchLog[i].outcome = "depth"
           /\ searchLog[j].outcome = "fact"
           /\ searchLog[k].outcome = "visited"
           /\ Refused(searchLog[k])

-----------------------------------------------------------------------------
(* Properties of forward chaining *)

\* No rule has a satisfied instance over fs whose instantiated conclusion is
\* missing from fs; for a rule without variables: its premises are all in fs
\* only if its conclusion is.
FixedPoint(rs, fs) ==
    \A ri \in DOMAIN rs :
        /\ \A m \in DOMAIN matchRule(rs[ri], fs) :
               Has(fs, instantiateConclusion(rs[ri].conclusion,
                                             matchRule(rs[ri], fs)[m].bindings))
        /\ (\A i \in DOMAIN rs[ri].pattern : ~includes(rs[ri].pattern[i], <<"?">>))
               /\ rs[ri].pattern # <<>>
               /\ (\A i \in DOMAIN rs[ri].pattern : Has(fs, rs[ri].pattern[i]))
           => Has(fs, rs[ri].conclusion)

\* The step is the return of a forwardChain call through the return statement
\* after the loop (the goal was not derived by the call).
ReturnsAfterLoop ==
    /\ run.active
    /\ ~run'.active
    /\ run.st.ret \in {"break", "exit"}

\* C21: when forwardChain returns without having derived the goal and after
\* fewer than 100 passes, the working fact set is a fixed point (no rule has a
\* satisfied instance whose instantiated conclusion is missing from it), and
\* the returned found flag equals membership of the goal in that set.
C21_FixedPointOnEarlyStop ==
    [][ReturnsAfterLoop /\ run.st.iterations < 100 =>
          /\ ~returned'.threw
          /\ returned'.value.iterations = run.st.iterations
          /\ FixedPoint(run.st.rules, run.st.derivedFacts)
          /\ returned'.value.found = Has(run.st.derivedFacts, run.request.goal)]_vars

\* Two calls that stopped when a pass added nothing: the first derived a fact
\* in its first pass and did not have the goal; the second, for a goal that is
\* an asserted fact, derived nothing and reported it found.
C21_Witness ==
    /\ calls = 2
    /\ Len(reasoning_history) = 2
    /\ reasoning_history[1].result.iterations = 2
    /\ reasoning_history[1].result.appliedRules = <<"ab">>
    /\ ~reasoning_history[1].result.found
    /\ reasoning_history[2].goal = A
    /\ reasoning_history[2].result.iterations < 100
    /\ reasoning_history[2].result.found

-----------------------------------------------------------------------------
(* Properties of abductive reasoning *)

\* The premises that are not asserted but whose negation is, and those of
\* which neither is asserted, as positions in the premise list.
Contradicted(fs, premises) ==
    {i \in DOMAIN premises : ~Has(fs, premises[i]) /\ Has(fs, Not(premises[i]))}
Unknown(fs, premises) ==
    {i \in DOMAIN premises : ~Has(fs, premises[i]) /\ ~Has(fs, Not(premises[i]))}

\* 0.1 for each contradicted premise, 0.5 for each unknown one, 1.0 for the rest.
PlausibilityProduct(fs, premises) ==
    Rat(1, 10 ^ Cardinality(Contradicted(fs, premises))
             * 2 ^ Cardinality(Unknown(fs, premises)))

\* C22: the plausibility of an abductive explanation built from a rule is the
\* product over the rule's premise patterns of 1.0 for a premise that is an
\* asserted fact, 0.1 for a premise that is not but whose negation is, and 0.5
\* otherwise; it lies in (0,1] and is 1.0 exactly when every premise is an
\* asserted fact.
C22_Plausibility ==
    [][\A q \in BuiltinRequestInputs :
          Calls(q) /\ methodOf(q) = "abductive" =>
              /\ ~returned'.threw
              /\ \A i \in DOMAIN returned'.value.explanations :
                     ~FromHeuristic(returned'.value.explanations[i]) =>
                         /\ returned'.value.explanations[i].plausibility
                              = PlausibilityProduct(facts',
                                    returned'.value.explanations[i].premises)
                         /\ Less(Zero, returned'.value.explanations[i].plausibility)
                         /\ Leq(returned'.value.explanations[i].plausibility, One)
                         /\ returned'.value.explanations[i].plausibility = One
                              <=> \A p \in DOMAIN returned'.value.explanations[i].premises :
                                      Has(facts', returned'.value.explanations[i].premises[p])]_vars

\* The same observation explained twice: with the negation of the premise of
\* tie2 asserted (0.1), and then with the premise asserted as well (1.0),
\* next to a rule whose premise is unknown (0.5) and one with a known and an
\* unknown premise.
C22_Witness ==
    /\ Len(reasoning_history) = 2
    /\ \A h \in 1..2 : reasoning_history[h].method = "abductive"
    /\ \E i \in DOMAIN reasoning_history[1].result.explanations :
           /\ reasoning_history[1].result.explanations[i].rule = "tie2"
           /\ reasoning_history[1].result.explanations[i].plausibility = Dec(10)
    /\ Has(facts, <<"Y">>)
    /\ Has(facts, Not(<<"Y">>))
    /\ \E i, j, k \in DOMAIN reasoning_history[2].result.explanations :
           /\ reasoning_history[2].result.explanations[i].rule = "tie2"
           /\ reasoning_history[2].result.explanations[i].plausibility = One
           /\ reasoning_history[2].result.explanations[j].rule = "tie1"
           /\ reasoning_history[2].result.explanations[j].plausibility = Dec(50)
           /\ reasoning_history[2].result.explanations[k].rule = "modus_ponens"
           /\ reasoning_history[2].result.explanations[k].plausibility = Dec(50)

-----------------------------------------------------------------------------
(* Properties of the confidence assessment *)

\* The confidences the engine holds, of facts and of rules, lie in [0,1].
StoredInUnit ==
    /\ \A v \in MapValues(uncertainties) : InUnit(v)
    /\ \A i \in DOMAIN rules : rules[i].confidence # Undefined => InUnit(rules[i].confidence)

\* The level of a score, by the interval it falls in.
Bucket(score) ==
    CASE Less(score, Dec(30)) -> "very_low"
      [] Leq(Dec(30), score) /\ Less(score, Dec(50)) -> "low"
      [] Leq(Dec(50), score) /\ Less(score, Dec(70)) -> "moderate"
      [] Leq(Dec(70), score) /\ Less(score, Dec(90)) -> "high"
      [] Leq(Dec(90), score) -> "very_high"

\* 0.3 x memory + 0.4 x reasoning + 0.2 x consistency + 0.1 x source.
WeightedSum(memory, reasoning, consistency, source) ==
    Rat(3 * memory[1] * reasoning[2] * consistency[2] * source[2]
          + 4 * reasoning[1] * memory[2] * consistency[2] * source[2]
          + 2 * consistency[1] * memory[2] * reasoning[2] * source[2]
          + 1 * source[1] * memory[2] * reasoning[2] * consistency[2],
        10 * memory[2] * reasoning[2] * consistency[2] * source[2])

\* C23: the score returned by assessConfidence equals 0.3 x memory support +
\* 0.4 x reasoning support + 0.2 x consistency + 0.1 x source reliability, lies
\* in [0,1] whenever the engine's stored confidences lie in [0,1], and the
\* returned level is the bucket of that score: very_high if score >= 0.9, high
\* if >= 0.7, moderate if >= 0.5, low if >= 0.3, otherwise very_low.
C23_WeightedScore ==
    [][\A s \in StatementInputs : \A e \in EvidenceInputs :
          Assesses(s, e) =>
              /\ assessment'.value.score
                   = WeightedSum(assessMemorySupport(memories, s).confidence,
                                 assessReasoningSupport(Engine, s, e).confidence,
                                 checkConsistency(memories, s).score,
                                 assessSourceReliability(e))
              /\ assessment'.value.factors[1]
                   = <<"Memory support: ",
                       ToString(assessMemorySupport(memories, s).matches),
                       " relevant memories (">>
                       \o percent(assessMemorySupport(memories, s).confidence) \o <<"%)">>
              /\ StoredInUnit => InUnit(assessment'.value.score)
              /\ assessment'.value.level = Bucket(assessment'.value.score)]_vars

\* An assessment with evidence that came out very_high, at 0.93, on full
\* support from the store and 0.9 from forward chaining; its row is stored.
C23_Witness ==
    /\ assessment.count > 0
    /\ assessment.evidence = <<E>>
    /\ assessment.value.level = "very_high"
    /\ assessment.value.score = Dec(93)
    /\ assessment.value.breakdown
         = [memory_support |-> Dec(30), reasoning_support |-> Dec(36),
            consistency |-> Dec(20), source_reliability |-> Dec(7)]
    /\ memories[Len(memories)].confidence = Dec(93)

-----------------------------------------------------------------------------
(* Properties of reflection and of the write-back to the memory store *)

\* A call that succeeded wrote one row, of the given context, as the last of
\* the calls it made on its collaborators, all of which completed.
WroteOneRowLast(context) ==
    /\ ~layer'.threw
    /\ Len(memories') = Len(memories) + 1
    /\ SubSeq(memories', 1, Len(memories)) = memories
    /\ memories'[Len(memories')].context = <<context>>
    /\ layer'.trace[Len(layer'.trace)] = "store"
    /\ \A i \in 1..(Len(layer'.trace) - 1) : layer'.trace[i] # "store"
    /\ \E i \in 1..(Len(layer'.trace) - 1) : layer'.trace[i] = "search"

\* A call in which a query of the store failed threw the store's error and
\* wrote nothing.
FailedWithoutWrite ==
    /\ layer'.threw
    /\ layer'.error = StoreError
    /\ layer'.value = <<>>
    /\ memories' = memories

\* C24: reflect and assessConfidence write exactly one memory back to the
\* store per successful call, and only after all their memory searches and
\* sub-assessments have completed; if a memory-store search or history read
\* fails, the failure propagates to the caller and no memory is written back
\* by that call.
C24_OneWriteBack ==
    [][layer'.count = layer.count + 1 =>
          IF layer'.failAt = 0
          THEN IF layer'.operation = "reflect"
               THEN /\ WroteOneRowLast("meta_cognition")
                    /\ layer'.trace = <<"search", "history", "store">>
               ELSE /\ WroteOneRowLast("confidence_assessment")
                    /\ layer'.trace = <<"search", "reason", "search", "store">>
                    /\ calls' = calls + 1
                    /\ assessment'.count = assessment.count + 1
          ELSE /\ FailedWithoutWrite
               /\ assessment' = assessment]_vars

\* An assessment wrote its row; the reflection that followed failed at the
\* read of the reasoning history, after its search, and wrote nothing.
C24_Witness ==
    /\ layer.count = 2
    /\ layer.operation = "reflect"
    /\ layer.failAt = 2
    /\ layer.threw
    /\ layer.trace = <<"search", "history">>
    /\ assessment.count = 1
    /\ Len(SelectSeq(memories, LAMBDA m : m.context = <<"confidence_assessment">>)) = 1
    /\ Len(SelectSeq(memories, LAMBDA m : m.context = <<"meta_cognition">>)) = 0
    /\ Len(memories) > 1

\* The iteration count of a depth.
Levels(depth) ==
    CASE depth = "surface" -> 1
      [] depth = "deep" -> 3
      [] depth = "philosophical" -> 5

\* C25: reflect(topic, depth) builds exactly 1 reflection level for depth
\* surface, 3 for deep and 5 for philosophical: one base reflection followed
\* by 0, 2 or 4 deepening steps, each computed from the level immediately
\* before it, and the report states that level count.
C25_ReflectionLevels ==
    [][/\ layer'.count = layer.count + 1
       /\ layer'.operation = "reflect"
       /\ layer'.failAt = 0
       => /\ Len(layer'.reflections) = Levels(layer'.depth)
          /\ layer'.reflections[1].level = <<"base">>
          /\ \A k \in 2..Len(layer'.reflections) :
                 /\ layer'.reflections[k].level = <<"deep_", ToString(k - 1)>>
                 /\ layer'.reflections[k].uncertainty_areas
                      = identifyUncertaintyAreas(layer'.reflections[k - 1])
                 /\ layer'.reflections[k].growth_opportunities
                      = identifyGrowthOpportunities(layer'.reflections[k - 1],
                            memorySearch(memories, T, Null, 20))
          /\ SubSeq(layer'.value, Len(layer'.value) - 2, Len(layer'.value))
               = <<"\n\n---\n*This reflection was generated through ",
                   ToString(Levels(layer'.depth)),
                   " levels of meta-cognitive analysis.*">>]_vars

\* A philosophical reflection over memories of low confidence: five levels,
\* the second of which, computed from the base, names an uncertainty that the
\* third, computed from the second, does not.
C25_Witness ==
    /\ layer.operation = "reflect"
    /\ layer.depth = "philosophical"
    /\ ~layer.threw
    /\ Len(layer.reflections) = 5
    /\ layer.reflections[1].patterns_identified # <<>>
    /\ layer.reflections[2].uncertainty_areas = <<<<"topic_understanding">>>>
    /\ layer.reflections[3].uncertainty_areas = <<>>
    /\ layer.reflections[5].level = <<"deep_", "4">>
    /\ Len(layer.reflections[5].meta_questions) = 7

-----------------------------------------------------------------------------
(* Properties of the results of reason() *)

C27_RejectedCallChangesNothing ==
    [][\A q \in RequestInputs :
          Calls(q) /\ returned'.threw =>
              UNCHANGED <<facts, uncertainties, rules, reasoning_history>>]_vars

\* The conclusions of the rules all of whose premises are in S.
Consequences(rs, S) ==
    {rs[i].conclusion : i \in {j \in DOMAIN rs : \A k \in DOMAIN rs[j].pattern :
                                                    rs[j].pattern[k] \in S}}

\* The least set that contains S and is closed under the rules.
RECURSIVE HornClosure(_, _)
HornClosure(rs, S) ==
    IF Consequences(rs, S) \subseteq S THEN S
    ELSE HornClosure(rs, S \cup Consequences(rs, S))

\* C28: for rule sets in which every premise and conclusion is variable-free,
\* forward chaining computes the propositional Horn closure: forwardChain(goal)
\* returns found:true exactly when the goal belongs to the least set that
\* contains the asserted facts and is closed under the rules, provided that
\* closure is reached within 100 passes.
C28_HornClosure ==
    [][\A q \in HornRequestInputs :
          Calls(q) =>
              (returned'.value # <<>> /\ returned'.value.found)
                  = (q.goal \in HornClosure(rules, {Ingested(q)[i] : i \in DOMAIN Ingested(q)}))]_vars

\* The engine as reason(request) hands it to the chainer.
IngestedEngine(request) ==
    ingest(Engine, addPremises([facts |-> facts, uncertainties |-> uncertainties],
                               request.premises))

\* C29: backward chaining never proves more than forward chaining: for every
\* rule set (including rules whose conclusion is a variable token), fact set
\* and goal, if backwardChain(goal) returns found:true then forwardChain(goal)
\* on the same engine state also returns found:true.
C29_BackwardWithinForward ==
    [][\A q \in VariableRequestInputs :
          Calls(q) /\ methodOf(q) = "backward" /\ returned'.value.found =>
              /\ ~forwardChain(IngestedEngine(q), q.goal).threw
              /\ forwardChain(IngestedEngine(q), q.goal).value.found]_vars

\* C30: on an initialized engine the built-in modus_ponens rule performs modus
\* ponens: given the premises "A → B" and "A" for variable-free texts A and B,
\* reason with method forward and goal "B" returns found:true with a trace
\* step naming modus_ponens and confidence 0.95.
C30_ModusPonens ==
    [][\A q \in VariableRequestInputs :
          /\ Calls(q)
          /\ methodOf(q) = "forward"
          /\ q.premises = <<Implies(Antecedent, Consequent), Antecedent>>
          /\ RuleIndex(rules, "modus_ponens") # 0
          => /\ ~returned'.threw
             /\ returned'.value.found
             /\ returned'.value.confidence = Dec(95)
             /\ Has(returned'.value.appliedRules, "modus_ponens")]_vars

====
